---- MODULE Spec2Model ----
(***************************************************************************)
(* Factor evaluation and portfolio construction engine.                    *)
(*                                                                         *)
(* The model follows one analysis run: the return calculator builds the    *)
(* return panel from the price data, construct_portfolios walks the dates  *)
(* of the return panel one loop iteration at a time, the caller's          *)
(* try/except receives the outcome, and construct_portfolios is then       *)
(* called a second time on the same panels.                                *)
(*                                                                         *)
(* Numbers are exact rationals <<numerator, denominator>> in lowest terms  *)
(* with a positive denominator; the missing value NaN is <<0, 0>>.         *)
(***************************************************************************)
EXTENDS Integers, Sequences, FiniteSets, TLC

\* ------------------------------------------------------------------ bounds
MaxDate == 3      \* dates are 1..MaxDate
MaxFactor == 2    \* factor values are 1..MaxFactor or NaN
MaxCap == 2       \* market caps are 0..MaxCap or NaN
MaxPrice == 2     \* adjusted closes of the varied price series are 1..MaxPrice
MaxGroups == 3    \* n_groups ranges over -1..MaxGroups

DefaultNGroups == 3   \* n_groups=3, the default every caller relies on

Tickers == <<"A", "B", "C", "D">>
TickerSet == {Tickers[k] : k \in 1..Len(Tickers)}
Dates == 1..MaxDate

\* ------------------------------------------------------- exact arithmetic
NaN == <<0, 0>>
Num(n) == <<n, 1>>
Zero == Num(0)
One == Num(1)
IsNaN(x) == x[2] = 0

Abs(n) == IF n < 0 THEN -n ELSE n

RECURSIVE GCD(_, _)
GCD(a, b) == IF b = 0 THEN a ELSE GCD(b, a % b)

\* n/d in lowest terms; 0/0 is NaN (a non-zero numerator over zero would be
\* +-inf, which needs a negative or non-finite input and is not modelled)
Rat(n, d) ==
    IF d = 0 THEN NaN
    ELSE LET g == GCD(Abs(n), Abs(d))
             s == IF d < 0 THEN -1 ELSE 1
         IN  <<(s * n) \div g, (s * d) \div g>>

RatAdd(x, y) == IF IsNaN(x) \/ IsNaN(y) THEN NaN
                ELSE Rat(x[1] * y[2] + y[1] * x[2], x[2] * y[2])
RatSub(x, y) == IF IsNaN(x) \/ IsNaN(y) THEN NaN
                ELSE Rat(x[1] * y[2] - y[1] * x[2], x[2] * y[2])
RatMul(x, y) == IF IsNaN(x) \/ IsNaN(y) THEN NaN
                ELSE Rat(x[1] * y[1], x[2] * y[2])
RatDiv(x, y) == IF IsNaN(x) \/ IsNaN(y) THEN NaN
                ELSE Rat(x[1] * y[2], x[2] * y[1])
RatLess(x, y) == x[1] * y[2] < y[1] * x[2]

\* Python's floor division for a non-zero divisor of either sign
FloorDiv(a, b) == IF b > 0 THEN a \div b ELSE (-a) \div (-b)

\* ------------------------------------------------------ sequence helpers
Range(s) == {s[k] : k \in 1..Len(s)}
IndexOf(s, x) == CHOOSE k \in 1..Len(s) : s[k] = x

\* the elements of set S in ascending order
RECURSIVE Ascending(_)
Ascending(S) ==
    IF S = {} THEN <<>>
    ELSE LET m == CHOOSE x \in S : \A y \in S : x <= y
         IN  <<m>> \o Ascending(S \ {m})

\* the subsequence of s made of its elements that are in S
RECURSIVE Keep(_, _)
Keep(s, S) ==
    IF s = <<>> THEN <<>>
    ELSE (IF Head(s) \in S THEN <<Head(s)>> ELSE <<>>) \o Keep(Tail(s), S)

\* seq[:g] and seq[-g:] with Python's slice rules
Clamp(k, n) == IF k < 0 THEN 0 ELSE IF k > n THEN n ELSE k
SliceTo(s, g) ==
    LET n == Len(s)
        stop == IF g < 0 THEN Clamp(n + g, n) ELSE Clamp(g, n)
    IN  SubSeq(s, 1, stop)
SliceFromMinus(s, g) ==
    LET n == Len(s)
        start == IF -g < 0 THEN Clamp(n - g, n) ELSE Clamp(-g, n)
    IN  SubSeq(s, start + 1, n)

\* ------------------------------------------------------------- pandas
\* A Series is [index |-> sequence of labels, at |-> label -> value].

\* Series.pct_change(): NaN at the first label, value/previous - 1 after it
PctChange(s) ==
    [index |-> s.index,
     at |-> [d \in Range(s.index) |->
               LET k == IndexOf(s.index, d)
               IN  IF k = 1 THEN NaN
                   ELSE RatSub(RatDiv(s.at[d], s.at[s.index[k - 1]]), One)]]

\* Series.fillna(v)
FillNa(s, v) ==
    [index |-> s.index,
     at |-> [d \in Range(s.index) |-> IF IsNaN(s.at[d]) THEN v ELSE s.at[d]]]

\* A DataFrame is [index, columns, at |-> date -> column -> value].
EmptyFrame == [index |-> <<>>, columns |-> <<>>, at |-> <<>>]

\* frame[col] = series: an empty-index frame adopts the index of a non-empty
\* series (earlier columns become NaN); otherwise the series is reindexed to
\* the frame's index, labels it lacks becoming NaN
SetColumn(f, col, s) ==
    LET idx == IF Len(f.index) = 0 /\ Len(s.index) > 0 THEN s.index ELSE f.index
        cols == IF col \in Range(f.columns) THEN f.columns
                ELSE Append(f.columns, col)
    IN  [index |-> idx,
         columns |-> cols,
         at |-> [d \in Range(idx) |->
                  [c \in Range(cols) |->
                     IF c = col
                     THEN (IF d \in Range(s.index) THEN s.at[d] ELSE NaN)
                     ELSE (IF d \in Range(f.index) THEN f.at[d][c] ELSE NaN)]]]

\* the fillna(0) forgotten: df['adjusted_close'].pct_change()
ReturnSeriesUnfilled(df) == PctChange([index |-> df.index, at |-> df.close])

\* df['adjusted_close'].pct_change().fillna(0) of one price frame
ReturnSeries(df) == FillNa(PctChange([index |-> df.index, at |-> df.close]), Zero)

\* calculate_returns / the first loop of analyze_calculate_construct:
\* the frame after the symbols keys[1..n] have been handled
RECURSIVE ReturnsAfter(_, _)
ReturnsAfter(pd, n) ==
    IF n = 0 THEN EmptyFrame
    ELSE LET sym == pd.keys[n]
             f == ReturnsAfter(pd, n - 1)
         IN  IF pd.frames[sym].adj
             THEN SetColumn(f, sym, ReturnSeries(pd.frames[sym]))
             ELSE f

calculate_returns(pd) == ReturnsAfter(pd, Len(pd.keys))

\* ------------------------------------------------ construct_portfolios
\* a look-ahead slip: index[index <= date]
PrevDatesInclusive(fdf, dt) == Keep(fdf.index, {d \in Range(fdf.index) : d <= dt})

\* index[index < date]
PrevDates(fdf, dt) == Keep(fdf.index, {d \in Range(fdf.index) : d < dt})

\* row.dropna(): the labels of cols that hold a value, in column order
DropNa(cols, row) == Keep(cols, {c \in Range(cols) : ~IsNaN(row[c])})

\* the row filled in place instead: factor_df.loc[prev_date].fillna(0, inplace=True)
PanelRowFilled(panel, prev_date) ==
    [panel EXCEPT !.at[prev_date] =
        [c \in DOMAIN @ |-> IF IsNaN(@[c]) THEN Zero ELSE @[c]]]

\* the frame a row was read from, after .loc[prev_date].dropna(): dropna
\* returns a new Series, the panel keeps its missing values
PanelAfterDropNa(panel, prev_date) == panel

\* ascending=False forgotten: Series.sort_values(), smallest value first
RECURSIVE SortAscending(_, _)
SortAscending(labels, row) ==
    IF labels = <<>> THEN <<>>
    ELSE LET n == Len(labels)
             k == CHOOSE k \in 1..n :
                    /\ \A j \in 1..n : ~RatLess(row[labels[j]], row[labels[k]])
                    /\ \A j \in 1..(k - 1) : RatLess(row[labels[k]], row[labels[j]])
         IN  <<labels[k]>> \o
             SortAscending(SubSeq(labels, 1, k - 1) \o SubSeq(labels, k + 1, n), row)

\* what the default sort (kind='quicksort', which numpy does not promise to
\* be stable) does with equal values: "column" leaves them in column order,
\* as the insertion sort numpy uses below 17 elements does once pandas has
\* reversed the values, sorted them ascending and reversed the result;
\* "reverse" is another order a build can give, the reverse column order
VARIABLE tie_order
TieOrders == {"column", "reverse"}

\* Series.sort_values(ascending=False): descending by value, equal values in
\* the order tie_order says
RECURSIVE SortDescending(_, _)
SortDescending(labels, row) ==
    IF labels = <<>> THEN <<>>
    ELSE LET n == Len(labels)
             k == CHOOSE k \in 1..n :
                    /\ \A j \in 1..n : ~RatLess(row[labels[k]], row[labels[j]])
                    /\ IF tie_order = "column"
                       THEN \A j \in 1..(k - 1) : RatLess(row[labels[j]], row[labels[k]])
                       ELSE \A j \in (k + 1)..n : RatLess(row[labels[j]], row[labels[k]])
         IN  <<labels[k]>> \o
             SortDescending(SubSeq(labels, 1, k - 1) \o SubSeq(labels, k + 1, n), row)

\* the loop's skip tests, in the order the code makes them: the date is
\* absent from the factor index or is the first return date; no factor date
\* is earlier; fewer than n_groups values at prev_date
SkipsDate(fdf, rdf, ng, dt) ==
    IF dt \notin Range(fdf.index) \/ dt = rdf.index[1] THEN TRUE
    ELSE IF Len(PrevDates(fdf, dt)) = 0 THEN TRUE
    ELSE LET prev_dates == PrevDates(fdf, dt)
             prev_date == prev_dates[Len(prev_dates)]
         IN  Len(DropNa(fdf.columns, fdf.at[prev_date])) < ng

\* group_size: BaseFactor uses max(1, n // n_groups), the module-level
\* function of djia_factor_analysis n // n_groups (n_groups # 0)
GroupSize(im, n, ng) ==
    IF im = "BaseFactor"
    THEN (IF FloorDiv(n, ng) < 1 THEN 1 ELSE FloorDiv(n, ng))
    ELSE FloorDiv(n, ng)

RECURSIVE SumCells(_, _)
\* Series.sum(): the sum of the values that are not NaN, 0 when there is none
SumCells(labels, at) ==
    IF labels = <<>> THEN Zero
    ELSE LET rest == SumCells(Tail(labels), at)
         IN  IF IsNaN(at[Head(labels)]) THEN rest ELSE RatAdd(at[Head(labels)], rest)

\* pd.Series(1.0/len(stocks), index=stocks)
EqualWeights(stocks) ==
    [index |-> stocks, at |-> [c \in Range(stocks) |-> Rat(1, Len(stocks))]]

\* the weights of one group: caps at prev_date over their sum when prev_date
\* is a market-cap date and some member has a cap, equal weights otherwise
GroupWeights(mdf, prev_date, stocks) ==
    IF prev_date \in Range(mdf.index)
    THEN LET mcap == DropNa(stocks, mdf.at[prev_date])
             total == SumCells(mcap, mdf.at[prev_date])
         IN  IF mcap # <<>>
             THEN [index |-> mcap,
                   at |-> [c \in Range(mcap) |-> RatDiv(mdf.at[prev_date][c], total)]]
             ELSE EqualWeights(stocks)
    ELSE EqualWeights(stocks)

\* the frame construct_portfolios is filling
VARIABLE portfolio_returns

\* a total that is not reset between the dates: the sum is added to the
\* High returns already stored in the frame
WeightedReturnCarried(rdf, dt, stocks, w) ==
    LET prod == [c \in Range(stocks) |->
                   IF c \in Range(w.index)
                   THEN RatMul(rdf.at[dt][c], w.at[c]) ELSE NaN]
        carried == IF portfolio_returns.columns = <<>> THEN Zero
                   ELSE SumCells(portfolio_returns.index,
                                 [d \in Range(portfolio_returns.index) |->
                                    portfolio_returns.at[d].High])
    IN  RatAdd(carried, SumCells(stocks, prod))

\* (returns_df.loc[date, stocks] * weights).sum(): the product is aligned on
\* the union of the labels, a label missing on either side gives NaN
WeightedReturn(rdf, dt, stocks, w) ==
    LET prod == [c \in Range(stocks) |->
                   IF c \in Range(w.index)
                   THEN RatMul(rdf.at[dt][c], w.at[c]) ELSE NaN]
    IN  SumCells(stocks, prod)

\* the exception one evaluated date raises, "" when it raises none, in the
\* order the statements run
DateException(fdf, rdf, mdf, ng, prev_date, high, low) ==
    LET mcols == Range(mdf.columns)
        hasCaps(stocks) == DropNa(stocks, mdf.at[prev_date]) # <<>>
    IN  IF ng = 0 THEN "ZeroDivisionError"
        ELSE IF prev_date \in Range(mdf.index)
        THEN (IF ~(Range(high) \subseteq mcols) THEN "KeyError"
              ELSE IF ~hasCaps(high) /\ high = <<>> THEN "ZeroDivisionError"
              ELSE IF ~(Range(low) \subseteq mcols) THEN "KeyError"
              ELSE IF ~hasCaps(low) /\ low = <<>> THEN "ZeroDivisionError"
              ELSE IF ~(Range(high) \cup Range(low) \subseteq Range(rdf.columns))
              THEN "KeyError" ELSE "")
        ELSE (IF high = <<>> \/ low = <<>> THEN "ZeroDivisionError"
              ELSE IF ~(Range(high) \cup Range(low) \subseteq Range(rdf.columns))
              THEN "KeyError" ELSE "")

\* the operands exchanged: low_factor_return - high_factor_return
SpreadReversed(hr, lr) == RatSub(lr, hr)

\* high_factor_return - low_factor_return
Spread(hr, lr) == RatSub(hr, lr)

NoSeries == [index |-> <<>>, at |-> <<>>]
NoRow == [High |-> NaN, Low |-> NaN, Factor |-> NaN]

\* one iteration of the date loop that is not skipped: the locals it binds,
\* the exception it raises and the row it stores
Evaluate(fdf, rdf, mdf, ng, im, dt) ==
    LET prev_dates == PrevDates(fdf, dt)
        prev_date == prev_dates[Len(prev_dates)]
        row == fdf.at[prev_date]
        factor_values == DropNa(fdf.columns, row)
        sorted_stocks == SortDescending(factor_values, row)
        group_size == IF ng = 0 THEN 0 ELSE GroupSize(im, Len(sorted_stocks), ng)
        high == SliceTo(sorted_stocks, group_size)
        low == SliceFromMinus(sorted_stocks, group_size)
        exc == DateException(fdf, rdf, mdf, ng, prev_date, high, low)
        hw == IF exc = "" THEN GroupWeights(mdf, prev_date, high) ELSE NoSeries
        lw == IF exc = "" THEN GroupWeights(mdf, prev_date, low) ELSE NoSeries
        hr == IF exc = "" THEN WeightedReturn(rdf, dt, high, hw) ELSE NaN
        lr == IF exc = "" THEN WeightedReturn(rdf, dt, low, lw) ELSE NaN
    IN  [exc |-> exc,
         prev_date |-> prev_date,
         ranked |-> sorted_stocks,
         high |-> high,
         low |-> low,
         high_weights |-> hw,
         low_weights |-> lw,
         row |-> [High |-> hr, Low |-> lr, Factor |-> Spread(hr, lr)]]

\* portfolio_returns.fillna(0) on the frame's existing columns
FillRows(rows) ==
    [d \in DOMAIN rows |->
       [c \in DOMAIN rows[d] |-> IF IsNaN(rows[d][c]) THEN Zero ELSE rows[d][c]]]

\* ------------------------------------------------------------- state
VARIABLES
    price_data,         \* dict symbol -> price frame, in insertion order
    factor_df,          \* the factor panel self.calculate returned
    market_cap_df,      \* the market-cap panel
    n_groups,           \* the n_groups argument
    impl,               \* "BaseFactor" (the method) or "djia" (the function)
    returns_df,         \* the return panel built from price_data
    return_series,      \* symbol -> the pct_change().fillna(0) series it got
    i,                  \* position of the date loop in returns_df.index
    locals,             \* date -> what the loop bound on that date
    pc,                 \* "start", "loop", "returned", "raised", "caught"
    exc,                \* the exception raised, "" when none
    call,               \* 1: inside the caller's try block; 2: called again
    first,              \* outcome of call 1
    results,            \* what the caller's try/except returned
    regression,         \* the frame of a test_factor call
    evaluation,         \* the frame of an evaluate_portfolio call
    performance,        \* the frame of a calculate_performance call
    scoring,            \* the frame of a calculate_factor_scores call
    rebalance,          \* one iteration of run_strategy: score, caps, portfolio
    run,                \* the frame of a run_strategy call
    trading             \* the frames of apply_risk_management and of the
                        \* return loop of calculate_performance

\* the frames of the calls made on the results of the pipeline
strategy == <<rebalance, run, trading>>
analysis == <<regression, evaluation, performance, scoring, strategy>>

vars == <<price_data, factor_df, market_cap_df, n_groups, impl, returns_df,
          return_series, portfolio_returns, i, locals, pc, exc, call, first,
          results, analysis, tie_order>>

\* a call that is not being made
NotCalled == [pc |-> "idle"]
StrategyIdle == rebalance = NotCalled /\ run = NotCalled /\ trading = NotCalled

inputs == <<price_data, market_cap_df, n_groups, impl, tie_order>>

PortfolioColumns == <<"High", "Low", "Factor">>

NoLocals == [state |-> "pending", prev_date |-> 0, ranked |-> <<>>,
             high |-> <<>>, low |-> <<>>,
             high_weights |-> NoSeries, low_weights |-> NoSeries]

\* the three columns created up front:
\* pd.DataFrame(index=returns_df.index, columns=[...])
NewPortfolioFrameWithColumns(rdf) ==
    [index |-> rdf.index, columns |-> PortfolioColumns,
     at |-> [d \in Range(rdf.index) |-> NoRow]]

\* pd.DataFrame(index=returns_df.index)
NewPortfolioFrame(rdf) ==
    [index |-> rdf.index, columns |-> <<>>,
     at |-> [d \in Range(rdf.index) |-> <<>>]]

\* ----------------------------------------------------------- input panels
Pos(c) == IndexOf(Tickers, c)
Mirror(c) == Tickers[Len(Tickers) + 1 - Pos(c)]

\* a panel over the dates idx: the row base on odd dates and, when alternate,
\* base read in reverse ticker order on even dates
Panel(idx, cols, base, alternate) ==
    [index |-> Ascending(idx), columns |-> cols,
     at |-> [d \in idx |-> [c \in Range(cols) |->
               IF alternate /\ d % 2 = 0 THEN base[Mirror(c)] ELSE base[c]]]]

FactorCells == {NaN} \cup {Num(v) : v \in 1..MaxFactor}
CapCells == {NaN} \cup {Num(v) : v \in 0..MaxCap}

DescendingRow == [c \in TickerSet |-> Num(Len(Tickers) + 1 - Pos(c))]
TiedRow == [c \in TickerSet |-> IF c = "B" THEN NaN ELSE IF c = "D" THEN One ELSE Num(2)]
SparseRow == [c \in TickerSet |-> IF c = "A" THEN One ELSE NaN]
CapRow == [c \in TickerSet |-> Num(Pos(c))]

FixedClose(c, d) == Num(1 + ((Pos(c) * d) % 5))
PriceFrame(c, idx, close, adj) ==
    [index |-> Ascending(idx), adj |-> adj, close |-> [d \in idx |-> close[d]]]
FixedFrame(c, idx) ==
    PriceFrame(c, idx, [d \in idx |-> FixedClose(c, d)], TRUE)
FixedPrices == [keys |-> Tickers, frames |-> [c \in TickerSet |-> FixedFrame(c, Dates)]]

Start(pd, fdf, mdf, ng, im) ==
    /\ price_data = pd
    /\ factor_df = fdf
    /\ market_cap_df = mdf
    /\ n_groups = ng
    /\ impl = im
    /\ returns_df = EmptyFrame
    /\ return_series = [c \in {} |-> NoSeries]
    /\ portfolio_returns = EmptyFrame
    /\ i = 0
    /\ locals = [d \in Dates |-> NoLocals]
    /\ pc = "start"
    /\ exc = ""
    /\ call = 1
    /\ first = [pc |-> "", exc |-> "", frame |-> EmptyFrame]
    /\ results = "pending"

\* every factor row, every n_groups, both implementations
InitRanking ==
    \E base \in [TickerSet -> FactorCells], ng \in -1..MaxGroups,
       im \in {"BaseFactor", "djia"} :
        Start(FixedPrices, Panel(Dates, Tickers, base, TRUE),
              Panel(Dates, Tickers, CapRow, TRUE), ng, im)

\* every set of factor dates; market caps on every date, on none, on all
\* but the first; with and without the market-cap column of ticker D
InitDates ==
    \E fidx \in SUBSET Dates, midx \in {Dates, {}, Dates \ {1}},
       base \in {DescendingRow, TiedRow, SparseRow}, ng \in 1..MaxGroups,
       mcols \in {Tickers, SubSeq(Tickers, 1, Len(Tickers) - 1)} :
        Start(FixedPrices, Panel(fidx, Tickers, base, TRUE),
              Panel(midx, mcols, CapRow, TRUE), ng, "BaseFactor")

\* every market-cap row
InitWeights ==
    \E caps \in [TickerSet -> CapCells], ng \in 1..2 :
        Start(FixedPrices, Panel(Dates, Tickers, DescendingRow, TRUE),
              Panel(Dates, Tickers, caps, TRUE), ng, "BaseFactor")

\* the price series of A with any dates and closes; the one of B on every
\* date, without the first date or on the first date only, with or without
\* an adjusted_close column; either of them first in the dict
InitPrices ==
    \E aidx \in SUBSET Dates \ {{}}, bidx \in {Dates, Dates \ {1}, {1}},
       badj \in BOOLEAN,
       keys \in {Tickers, <<"B", "A", "C", "D">>} :
        \E aclose \in [aidx -> {Num(v) : v \in 1..MaxPrice}] :
            Start([keys |-> keys,
                   frames |-> [c \in TickerSet |->
                      IF c = "A" THEN PriceFrame(c, aidx, aclose, TRUE)
                      ELSE IF c = "B"
                      THEN PriceFrame(c, bidx, [d \in bidx |-> FixedClose(c, d)], badj)
                      ELSE FixedFrame(c, Dates)]],
                  Panel(Dates, Tickers, DescendingRow, TRUE),
                  Panel(Dates, Tickers, CapRow, TRUE), DefaultNGroups, "BaseFactor")

\* three assets, A always highest and C always lowest, n_groups = 3
InitScenario ==
    \E im \in {"BaseFactor", "djia"} :
        Start([keys |-> SubSeq(Tickers, 1, 3),
               frames |-> [c \in TickerSet |-> FixedFrame(c, Dates)]],
              Panel(Dates, SubSeq(Tickers, 1, 3), DescendingRow, FALSE),
              Panel(Dates, SubSeq(Tickers, 1, 3), CapRow, TRUE), DefaultNGroups, im)

Init ==
    /\ \/ InitRanking /\ tie_order \in TieOrders
       \/ /\ InitDates \/ InitWeights \/ InitPrices \/ InitScenario
          /\ tie_order = "column"
    /\ regression = NotCalled
    /\ evaluation = NotCalled
    /\ performance = NotCalled
    /\ scoring = NotCalled
    /\ StrategyIdle

\* ------------------------------------------------------------ actions
date == returns_df.index[i]
InLoop == pc = "loop" /\ i <= Len(returns_df.index)

\* analyze_calculate_construct up to the call of construct_portfolios
\* (run_peg_factor_analysis does the same with calculate_returns): build the
\* return panel, take the factor panel, enter construct_portfolios
CalculateReturns ==
    /\ pc = "start"
    /\ returns_df' = calculate_returns(price_data)
    /\ return_series' =
         [c \in {k \in Range(price_data.keys) : price_data.frames[k].adj} |->
            ReturnSeries(price_data.frames[c])]
    /\ portfolio_returns' = NewPortfolioFrame(returns_df')
    /\ i' = 1
    /\ pc' = "loop"
    /\ UNCHANGED <<analysis, inputs, factor_df, locals, exc, call, first, results>>

\* one iteration that ends in a continue
SkipDate ==
    /\ InLoop
    /\ SkipsDate(factor_df, returns_df, n_groups, date)
    /\ locals' = [locals EXCEPT ![date] = [NoLocals EXCEPT !.state = "skipped"]]
    /\ i' = i + 1
    /\ UNCHANGED <<analysis, inputs, factor_df, returns_df, return_series,
                   portfolio_returns, pc, exc, call, first, results>>

\* one iteration that stores the three returns of the date
ComputeDate ==
    /\ InLoop
    /\ ~SkipsDate(factor_df, returns_df, n_groups, date)
    /\ LET e == Evaluate(factor_df, returns_df, market_cap_df, n_groups, impl, date)
       IN  /\ e.exc = ""
           /\ portfolio_returns' =
                [portfolio_returns EXCEPT
                   !.columns = PortfolioColumns,
                   !.at = [d \in Range(portfolio_returns.index) |->
                             IF d = date THEN e.row
                             ELSE IF portfolio_returns.columns = <<>> THEN NoRow
                             ELSE portfolio_returns.at[d]]]
           /\ locals' = [locals EXCEPT ![date] =
                [state |-> "computed", prev_date |-> e.prev_date,
                 ranked |-> e.ranked, high |-> e.high, low |-> e.low,
                 high_weights |-> e.high_weights, low_weights |-> e.low_weights]]
           /\ factor_df' = PanelAfterDropNa(factor_df, e.prev_date)
    /\ i' = i + 1
    /\ UNCHANGED <<analysis, inputs, returns_df, return_series, pc, exc, call, first, results>>

\* one iteration that raises: the exception leaves construct_portfolios
RaiseInDate ==
    /\ InLoop
    /\ ~SkipsDate(factor_df, returns_df, n_groups, date)
    /\ LET e == Evaluate(factor_df, returns_df, market_cap_df, n_groups, impl, date)
       IN  /\ e.exc # ""
           /\ exc' = e.exc
           /\ locals' = [locals EXCEPT ![date] =
                [NoLocals EXCEPT !.state = "raised", !.prev_date = e.prev_date,
                                 !.ranked = e.ranked, !.high = e.high, !.low = e.low]]
    /\ pc' = "raised"
    /\ UNCHANGED <<analysis, inputs, factor_df, returns_df, return_series,
                   portfolio_returns, i, call, first, results>>

\* return portfolio_returns.fillna(0)
Return ==
    /\ pc = "loop"
    /\ i > Len(returns_df.index)
    /\ portfolio_returns' = [portfolio_returns EXCEPT !.at = FillRows(@)]
    /\ pc' = "returned"
    /\ UNCHANGED <<analysis, inputs, factor_df, returns_df, return_series, i, locals,
                   exc, call, first, results>>

\* the caller's try block ends: self.results is stored and returned
StoreResults ==
    /\ pc = "returned" /\ call = 1
    /\ results' = "results"
    /\ first' = [pc |-> pc, exc |-> exc, frame |-> portfolio_returns]
    /\ pc' = "back"
    /\ UNCHANGED <<analysis, inputs, factor_df, returns_df, return_series,
                   portfolio_returns, i, locals, exc, call>>

\* except Exception: print and return None
CatchException ==
    /\ pc = "raised" /\ call = 1
    /\ results' = "None"
    /\ first' = [pc |-> pc, exc |-> exc, frame |-> EmptyFrame]
    /\ pc' = "back"
    /\ UNCHANGED <<analysis, inputs, factor_df, returns_df, return_series,
                   portfolio_returns, i, locals, exc, call>>

\* construct_portfolios is called once more with the same three panels
CallAgain ==
    /\ pc = "back"
    /\ call' = 2
    /\ portfolio_returns' = NewPortfolioFrame(returns_df)
    /\ i' = 1
    /\ locals' = [d \in Dates |-> NoLocals]
    /\ exc' = ""
    /\ pc' = "loop"
    /\ UNCHANGED <<analysis, inputs, factor_df, returns_df, return_series, first, results>>

Next ==
    \/ CalculateReturns
    \/ SkipDate
    \/ ComputeDate
    \/ RaiseInDate
    \/ Return
    \/ StoreResults
    \/ CatchException
    \/ CallAgain

Spec == Init /\ [][Next]_vars

\* ------------------------------------------------------------ claims
Computed(d) == locals[d].state = "computed"
Skipped(d) == locals[d].state = "skipped"
RowOf(d) == portfolio_returns.at[d]

\* the panel with every row dated dt or later blanked to NaN
Blanked(panel, dt) ==
    [panel EXCEPT !.at = [d \in DOMAIN panel.at |->
        IF d >= dt THEN [c \in DOMAIN panel.at[d] |-> NaN] ELSE panel.at[d]]]

\* labels is ordered by descending value of row
IsDescending(labels, row) ==
    \A j, k \in 1..Len(labels) : j < k => ~RatLess(row[labels[j]], row[labels[k]])

\* C1: on every date d with a computed row, the ranking and the weights
\* come from one factor-panel date that is strictly earlier than d and is
\* the latest such date, and the row is the one the loop computes when every
\* factor and market-cap row dated d or later is blanked.
C1_NoLookAhead ==
    \A d \in Dates : Computed(d) =>
        LET p == locals[d].prev_date
            fd == Range(factor_df.index)
            row == factor_df.at[p]
        IN  /\ p \in fd
            /\ p < d
            /\ \A f \in fd : f < d => f <= p
            /\ Range(locals[d].ranked) =
                 {c \in Range(factor_df.columns) : ~IsNaN(row[c])}
            /\ IsDescending(locals[d].ranked, row)
            /\ locals[d].high_weights =
                 GroupWeights(market_cap_df, p, locals[d].high)
            /\ locals[d].low_weights =
                 GroupWeights(market_cap_df, p, locals[d].low)
            /\ RowOf(d) = Evaluate(Blanked(factor_df, d), returns_df,
                                   Blanked(market_cap_df, d), n_groups, impl, d).row

\* a computed date with two earlier factor dates whose row differs from the
\* row ranked, and a non-zero spread
C1_Witness ==
    \E d \in Dates :
        /\ Computed(d)
        /\ \E f \in Range(factor_df.index) : f < locals[d].prev_date
        /\ factor_df.at[d] # factor_df.at[locals[d].prev_date]
        /\ RowOf(d).Factor # Zero

\* C2: in the returned frame every date, computed or zero-filled, has
\* spread = high - low exactly.
C2_SpreadIsHighMinusLow ==
    (pc = "returned" /\ portfolio_returns.columns # <<>>) =>
        \A d \in Range(portfolio_returns.index) :
            LET r == RowOf(d)
            IN  /\ ~IsNaN(r.High) /\ ~IsNaN(r.Low) /\ ~IsNaN(r.Factor)
                /\ r.Factor[1] * r.High[2] * r.Low[2] =
                     (r.High[1] * r.Low[2] - r.Low[1] * r.High[2]) * r.Factor[2]

\* a returned frame with a computed date of non-zero spread and a
\* zero-filled skipped date
C2_Witness ==
    /\ pc = "returned"
    /\ \E d \in Range(portfolio_returns.index) :
        Computed(d) /\ RowOf(d).Factor # Zero /\ RowOf(d).Low # Zero
    /\ \E d \in Range(portfolio_returns.index) :
        Skipped(d) /\ RowOf(d) = [High |-> Zero, Low |-> Zero, Factor |-> Zero]

\* the loop has gone past position k of the return index
Passed(k) == (pc = "loop" /\ k < i) \/ pc = "returned"

\* C3: every return date d other than the first for which some earlier
\* factor-panel date has at least n_groups non-missing values gets a
\* computed row, also when d is not a factor-panel date.
C3_EveryEligibleDateComputed ==
    \A k \in 2..Len(returns_df.index) :
        LET d == returns_df.index[k]
        IN  (/\ Passed(k)
             /\ \E f \in Range(factor_df.index) :
                  /\ f < d
                  /\ Len(DropNa(factor_df.columns, factor_df.at[f])) >= n_groups)
            => Computed(d)

NoCap(p, c) ==
    \/ p \notin Range(market_cap_df.index)
    \/ IsNaN(market_cap_df.at[p][c])
    \/ market_cap_df.at[p][c] = Zero

EqualWeighted(d, stocks, w, ret) ==
    (stocks # <<>> /\ \A c \in Range(stocks) : NoCap(locals[d].prev_date, c)) =>
        /\ Range(w.index) = Range(stocks)
        /\ \A c \in Range(stocks) : w.at[c] = Rat(1, Len(stocks))
        /\ (\A c \in Range(stocks) : ~IsNaN(returns_df.at[d][c])) =>
              ret = RatDiv(SumCells(stocks, returns_df.at[d]), Num(Len(stocks)))

\* C5: on a computed date, a group all of whose members have a zero or
\* missing market cap at the prior date (or whose prior date is no
\* market-cap date) has weight 1/group_size on every member and the mean of
\* the members' returns as its return.
C5_EqualWeightFallback ==
    \A d \in Dates : Computed(d) =>
        /\ EqualWeighted(d, locals[d].high, locals[d].high_weights, RowOf(d).High)
        /\ EqualWeighted(d, locals[d].low, locals[d].low_weights, RowOf(d).Low)

C7_NeverRaises == n_groups >= 1 => pc # "raised"

\* C8: with n_groups <= 0 the call fails before any date is processed and
\* never returns.
C8_RejectsNonPositiveGroups ==
    n_groups <= 0 =>
        /\ pc # "returned"
        /\ first.pc # "returned"
        /\ \A d \in Dates : locals[d].state = "pending"

NoneComputed == \A d \in Dates : ~Computed(d)

MinObservations == 30
MaxObs == 31
MaxGap == 2

\* the pipeline variables while one of the later calls is followed
PipelineIdle ==
    /\ Start(FixedPrices, Panel(Dates, Tickers, DescendingRow, TRUE),
             Panel(Dates, Tickers, CapRow, TRUE), DefaultNGroups, "BaseFactor")
    /\ tie_order = "column"
pipeline == <<price_data, factor_df, market_cap_df, n_groups, impl, returns_df,
              return_series, portfolio_returns, i, locals, pc, exc, call, first,
              results, tie_order>>

\* frame[c]
Column(frame, c) ==
    [index |-> frame.index, at |-> [d \in Range(frame.index) |-> frame.at[d][c]]]

\* Series.dropna()
DropNaSeries(s) ==
    LET kept == {d \in Range(s.index) : ~IsNaN(s.at[d])}
    IN  [index |-> Keep(s.index, kept), at |-> [d \in kept |-> s.at[d]]]

\* Series.loc[labels]: KeyError when a label is not in the index
LocRaises(s, labels) == ~(Range(labels) \subseteq Range(s.index))
Loc(s, labels) == [index |-> labels, at |-> [d \in Range(labels) |-> s.at[d]]]

\* more than MinObservations asked for
EnoughDataStrict(aligned_factor) == Len(aligned_factor.index) > MinObservations

\* the negation of `len(aligned_factor) < 30`
EnoughData(aligned_factor) == Len(aligned_factor.index) >= MinObservations

\* returns_df[ticker].dropna()
StockReturns(rdf, ticker) == DropNaSeries(Column(rdf, ticker))

\* factor_returns.loc[stock_returns.index].dropna()
AlignedFactor(rdf, factor_returns, ticker) ==
    DropNaSeries(Loc(factor_returns, StockReturns(rdf, ticker).index))

\* the regression sample of a ticker, stock_returns.loc[aligned_factor.index]
\* against aligned_factor; the fit itself is not computed
Fit(rdf, factor_returns, ticker) ==
    LET aligned_factor == AlignedFactor(rdf, factor_returns, ticker)
    IN  [y |-> Loc(StockReturns(rdf, ticker), aligned_factor.index),
         X |-> aligned_factor]

\* a return panel of n dates over A and B whose first gap[c] returns are
\* missing, and a factor series that stops `short` dates early and whose
\* last `tail` values are missing
TestReturns(n, gap) ==
    [index |-> [d \in 1..n |-> d], columns |-> <<"A", "B">>,
     at |-> [d \in 1..n |-> [c \in {"A", "B"} |->
               IF d <= gap[c] THEN NaN ELSE Num((Pos(c) + d) % 3)]]]
TestFactorReturns(n, short, tail) ==
    [index |-> [d \in 1..(n - short) |-> d],
     at |-> [d \in 1..(n - short) |->
               IF d > n - short - tail THEN NaN ELSE Num(d % 2)]]

InitTest ==
    /\ PipelineIdle
    /\ StrategyIdle
    /\ evaluation = NotCalled
    /\ performance = NotCalled
    /\ scoring = NotCalled
    /\ \E n \in (MinObservations - 1)..MaxObs, gap \in [{"A", "B"} -> 0..MaxGap],
          short \in 0..1, tail \in 0..MaxGap :
        regression = [pc |-> "loop", exc |-> "", k |-> 1,
                      returns_df |-> TestReturns(n, gap),
                      factor_returns |-> TestFactorReturns(n, short, tail),
                      tickers |-> <<>>, results |-> <<>>]

ticker == regression.returns_df.columns[regression.k]
InTickerLoop ==
    regression.pc = "loop" /\ regression.k <= Len(regression.returns_df.columns)

\* factor_returns.loc[stock_returns.index] raises
RaiseInTicker ==
    /\ InTickerLoop
    /\ LocRaises(regression.factor_returns,
                 StockReturns(regression.returns_df, ticker).index)
    /\ regression' = [regression EXCEPT !.pc = "raised", !.exc = "KeyError"]
    /\ UNCHANGED <<pipeline, strategy, evaluation, performance, scoring>>

\* an iteration that ends in the continue
SkipTicker ==
    /\ InTickerLoop
    /\ ~LocRaises(regression.factor_returns,
                  StockReturns(regression.returns_df, ticker).index)
    /\ ~EnoughData(AlignedFactor(regression.returns_df, regression.factor_returns, ticker))
    /\ regression' = [regression EXCEPT !.k = @ + 1]
    /\ UNCHANGED <<pipeline, strategy, evaluation, performance, scoring>>

\* an iteration that stores results[ticker]
FitTicker ==
    /\ InTickerLoop
    /\ ~LocRaises(regression.factor_returns,
                  StockReturns(regression.returns_df, ticker).index)
    /\ EnoughData(AlignedFactor(regression.returns_df, regression.factor_returns, ticker))
    /\ regression' = [regression EXCEPT
         !.k = @ + 1,
         !.tickers = Append(@, ticker),
         !.results = Append(@, Fit(regression.returns_df, regression.factor_returns, ticker))]
    /\ UNCHANGED <<pipeline, strategy, evaluation, performance, scoring>>

\* return pd.DataFrame(results).T
ReturnRegressions ==
    /\ regression.pc = "loop"
    /\ regression.k > Len(regression.returns_df.columns)
    /\ regression' = [regression EXCEPT !.pc = "returned"]
    /\ UNCHANGED <<pipeline, strategy, evaluation, performance, scoring>>

NextTest ==
    \/ RaiseInTicker
    \/ SkipTicker
    \/ FitTicker
    \/ ReturnRegressions

SpecTest == InitTest /\ [][NextTest]_vars

\* the dates on which the ticker's return and the spread return are defined
AlignedDates(c) ==
    {d \in Range(regression.returns_df.index) :
        /\ ~IsNaN(regression.returns_df.at[d][c])
        /\ d \in Range(regression.factor_returns.index)
        /\ ~IsNaN(regression.factor_returns.at[d])}

\* C11: the result test_factor returns has an entry for a ticker exactly if
\* the ticker has at least 30 dates on which its return and the spread return
\* are both defined, whatever the other tickers have; the entry is fitted on
\* exactly those dates.
C11_EntryIffThirtyAligned ==
    regression.pc = "returned" =>
        /\ \A c \in Range(regression.returns_df.columns) :
             c \in Range(regression.tickers) <=> Cardinality(AlignedDates(c)) >= 30
        /\ \A j \in 1..Len(regression.tickers) :
             /\ Range(regression.results[j].X.index) = AlignedDates(regression.tickers[j])
             /\ regression.results[j].y.index = regression.results[j].X.index
             /\ \A k \in 1..Len(regression.tickers) :
                  regression.tickers[j] = regression.tickers[k] => j = k

\* a result with an entry for a ticker of exactly 30 aligned dates and none
\* for a ticker of 29
C11_Witness ==
    /\ regression.pc = "returned"
    /\ \E c \in Range(regression.tickers) : Cardinality(AlignedDates(c)) = 30
    /\ \E c \in Range(regression.returns_df.columns) \ Range(regression.tickers) :
         Cardinality(AlignedDates(c)) = 29

\* ----------------------------- evaluate_portfolio, calculate_performance
MaxRows == 3
\* trading_days_per_year = 252
TradingDays == 252
\* risk_free_rate = 0.02
RiskFreeRate == Rat(1, 50)

RECURSIVE LastValid(_, _)
\* the last value of s that is not NaN, dflt when there is none
LastValid(s, dflt) ==
    IF s = <<>> THEN dflt
    ELSE IF IsNaN(s[Len(s)]) THEN LastValid(SubSeq(s, 1, Len(s) - 1), dflt)
    ELSE s[Len(s)]

RECURSIVE CumProd(_)
\* (1 + s).cumprod(): NaN where s is NaN, the product of the others so far
CumProd(s) ==
    IF s = <<>> THEN <<>>
    ELSE LET before == CumProd(SubSeq(s, 1, Len(s) - 1))
             x == s[Len(s)]
         IN  Append(before, IF IsNaN(x) THEN NaN
                            ELSE RatMul(LastValid(before, One), RatAdd(One, x)))

RECURSIVE CumMax(_)
\* Series.cummax(): NaN where s is NaN, the largest of the others so far
CumMax(s) ==
    IF s = <<>> THEN <<>>
    ELSE LET before == CumMax(SubSeq(s, 1, Len(s) - 1))
             x == s[Len(s)]
             m == LastValid(before, x)
         IN  Append(before, IF IsNaN(x) THEN NaN
                            ELSE IF RatLess(m, x) THEN x ELSE m)

RECURSIVE SeriesMin(_)
\* Series.min(): the smallest value that is not NaN, NaN when there is none
SeriesMin(s) ==
    IF s = <<>> THEN NaN
    ELSE LET rest == SeriesMin(Tail(s))
         IN  IF IsNaN(Head(s)) THEN rest
             ELSE IF IsNaN(rest) \/ RatLess(Head(s), rest) THEN Head(s)
             ELSE rest

\* the values of s that are not NaN
Valid(s) == Keep(s, {x \in Range(s) : ~IsNaN(x)})

RECURSIVE SeqSum(_)
SeqSum(s) == IF s = <<>> THEN Zero ELSE RatAdd(Head(s), SeqSum(Tail(s)))

\* Series.mean(): over the values that are not NaN, NaN when there is none
Mean(s) == RatDiv(SeqSum(Valid(s)), Num(Len(Valid(s))))

\* Series.var() (ddof = 1) over the values that are not NaN: NaN for fewer
\* than two values
Variance(s) ==
    LET v == Valid(s)
        m == Mean(s)
    IN  IF Len(v) < 2 THEN NaN
        ELSE RatDiv(SeqSum([k \in 1..Len(v) |->
                              RatMul(RatSub(v[k], m), RatSub(v[k], m))]),
                    Num(Len(v) - 1))

\* a float that is a known number (NaN included)
Const(v) == [kind |-> "const", value |-> v, sign |-> 0, base |-> Zero, rows |-> 0]
\* the float sign * base ** (252 / rows) - 1, for a base other than 0 and 1
Power(sign, base, rows) ==
    [kind |-> "pow", value |-> Zero, sign |-> sign, base |-> base, rows |-> rows]

\* base ** (252 / rows) - 1 in float arithmetic: a negative base gives NaN
\* for a fractional exponent
PowerMinusOne(base, rows) ==
    IF IsNaN(base) THEN Const(NaN)
    ELSE IF base = Zero THEN Const(Num(-1))
    ELSE IF base = One THEN Const(Zero)
    ELSE IF RatLess(Zero, base) THEN Power(1, base, rows)
    ELSE IF TradingDays % rows # 0 THEN Const(NaN)
    ELSE LET sign == IF (TradingDays \div rows) % 2 = 0 THEN 1 ELSE -1
         IN  IF base = Num(-1) THEN Const(Num(sign - 1))
             ELSE Power(sign, RatSub(Zero, base), rows)

\* the power taken whatever the sign of the cumulative return
AnnualizedReturnUnguarded(final, rows) == PowerMinusOne(final, rows)

\* cumulative_returns[col].iloc[-1] ** (1/years) - 1 if it is > 0, else -1
AnnualizedReturn(final, rows) ==
    IF ~IsNaN(final) /\ RatLess(Zero, final) THEN PowerMinusOne(final, rows)
    ELSE Const(Num(-1))

\* Series.std() * np.sqrt(252), kept as the variance it is the root of
Volatility(s) == [variance |-> Variance(s), periods |-> TradingDays]
\* volatility > 0
VolatilityPositive(vol) == ~IsNaN(vol.variance) /\ RatLess(Zero, vol.variance)

NoVolatility == [variance |-> NaN, periods |-> 0]
\* the float (ann - rf) / vol
Ratio(ann, rf, vol) == [zero |-> FALSE, ann |-> ann, rf |-> rf, vol |-> vol]
\* the float 0
ZeroRatio == [zero |-> TRUE, ann |-> Const(Zero), rf |-> Zero, vol |-> NoVolatility]

\* the division done whatever the volatility
SharpeRatioUnguarded(ann, rf, vol) == Ratio(ann, rf, vol)

\* (annualized_return - risk_free_rate) / volatility if volatility > 0 else 0
SharpeRatio(ann, rf, vol) ==
    IF VolatilityPositive(vol) THEN Ratio(ann, rf, vol) ELSE ZeroRatio

\* ((cum_returns / cum_returns.cummax()) - 1).min()
MaxDrawdown(cum) ==
    LET running_max == CumMax(cum)
    IN  SeriesMin([k \in 1..Len(cum) |->
                     RatSub(RatDiv(cum[k], running_max[k]), One)])

RECURSIVE Product(_)
\* (1 + s).prod(): the product over the values that are not NaN
Product(s) ==
    IF s = <<>> THEN One
    ELSE IF IsNaN(Head(s)) THEN Product(Tail(s))
    ELSE RatMul(RatAdd(One, Head(s)), Product(Tail(s)))

ReturnCells == {NaN, Num(-2), Num(-1), Rat(-1, 2), Zero, Rat(1, 2), One}

\* a frame of the three columns: any High, Low constant, Factor = High - Low
ReturnsFrame(high) ==
    [columns |-> PortfolioColumns,
     at |-> [c \in Range(PortfolioColumns) |->
               IF c = "High" THEN high
               ELSE IF c = "Low" THEN [k \in 1..Len(high) |-> Rat(1, 2)]
               ELSE [k \in 1..Len(high) |-> RatSub(high[k], Rat(1, 2))]]]

NoMetrics == [c \in {} |-> Zero]

InitEval ==
    /\ PipelineIdle
    /\ StrategyIdle
    /\ regression = NotCalled
    /\ scoring = NotCalled
    /\ \E rows \in 0..MaxRows :
        \E high \in [1..rows -> ReturnCells] :
            /\ evaluation =
                 [pc |-> "start", exc |-> "",
                  portfolio_returns |-> ReturnsFrame(high),
                  cumulative_returns |-> NoMetrics,
                  annualized_return |-> NoMetrics, volatility |-> NoMetrics,
                  sharpe_ratio |-> NoMetrics, max_drawdown |-> NoMetrics]
            /\ performance =
                 [pc |-> "metrics", exc |-> "", portfolio_returns |-> high,
                  annualized_return |-> Const(NaN), volatility |-> NoVolatility,
                  sharpe_ratio |-> ZeroRatio, max_drawdown |-> NaN]

EvalColumns == Range(evaluation.portfolio_returns.columns)
total_days == Len(evaluation.portfolio_returns.at["High"])

\* cumulative_returns = (1 + portfolio_returns).cumprod()
CumulativeReturns ==
    /\ evaluation.pc = "start"
    /\ evaluation' = [evaluation EXCEPT
         !.pc = "annualize",
         !.cumulative_returns =
            [c \in EvalColumns |-> CumProd(evaluation.portfolio_returns.at[c])]]
    /\ UNCHANGED <<pipeline, strategy, regression, performance, scoring>>

\* the annualized-return loop on a frame without rows: .iloc[-1] raises
RaiseOnNoRows ==
    /\ evaluation.pc = "annualize"
    /\ total_days = 0
    /\ evaluation' = [evaluation EXCEPT !.pc = "raised", !.exc = "IndexError"]
    /\ UNCHANGED <<pipeline, strategy, regression, performance, scoring>>

\* the annualized-return loop
AnnualizeReturns ==
    /\ evaluation.pc = "annualize"
    /\ total_days > 0
    /\ evaluation' = [evaluation EXCEPT
         !.pc = "risk",
         !.annualized_return =
            [c \in EvalColumns |->
               AnnualizedReturn(evaluation.cumulative_returns[c][total_days],
                                total_days)]]
    /\ UNCHANGED <<pipeline, strategy, regression, performance, scoring>>

\* volatility, Sharpe ratio and maximum drawdown, and the return
RiskMetrics ==
    /\ evaluation.pc = "risk"
    /\ LET vol == [c \in EvalColumns |->
                     Volatility(evaluation.portfolio_returns.at[c])]
       IN  evaluation' = [evaluation EXCEPT
             !.pc = "returned",
             !.volatility = vol,
             !.sharpe_ratio =
                [c \in EvalColumns |->
                   SharpeRatio(evaluation.annualized_return[c], RiskFreeRate, vol[c])],
             !.max_drawdown =
                [c \in EvalColumns |-> MaxDrawdown(evaluation.cumulative_returns[c])]]
    /\ UNCHANGED <<pipeline, strategy, regression, performance, scoring>>

\* calculate_performance on a series without rows: 252 / len(...) raises
RaiseOnNoReturns ==
    /\ performance.pc = "metrics"
    /\ performance.portfolio_returns = <<>>
    /\ performance' = [performance EXCEPT !.pc = "raised", !.exc = "ZeroDivisionError"]
    /\ UNCHANGED <<pipeline, strategy, regression, evaluation, scoring>>

\* the metrics calculate_performance takes from portfolio_returns
PerformanceMetrics ==
    /\ performance.pc = "metrics"
    /\ performance.portfolio_returns # <<>>
    /\ LET s == performance.portfolio_returns
           ann == PowerMinusOne(Product(s), Len(s))
           vol == Volatility(s)
       IN  performance' = [performance EXCEPT
             !.pc = "returned",
             !.annualized_return = ann,
             !.volatility = vol,
             !.sharpe_ratio = SharpeRatio(ann, Zero, vol),
             !.max_drawdown = MaxDrawdown(CumProd(s))]
    /\ UNCHANGED <<pipeline, strategy, regression, evaluation, scoring>>

NextEval ==
    \/ CumulativeReturns
    \/ RaiseOnNoRows
    \/ AnnualizeReturns
    \/ RiskMetrics
    \/ RaiseOnNoReturns
    \/ PerformanceMetrics

SpecEval == InitEval /\ [][NextEval]_vars

\* the return series of a column, when none of its returns is missing
Returns(c) == evaluation.portfolio_returns.at[c]
Complete(s) == s # <<>> /\ \A k \in 1..Len(s) : ~IsNaN(s[k])

\* C12: evaluate_portfolio raises nothing on a frame with rows, and for a
\* column whose product of (1 + r) over all T rows is zero or negative the
\* annualized return is exactly -1; for a positive product it is
\* product ** (252 / T) - 1.
C12_AnnualizedReturn ==
    /\ (evaluation.pc = "raised") => total_days = 0
    /\ evaluation.pc \in {"risk", "returned"} =>
         \A c \in EvalColumns : Complete(Returns(c)) =>
             LET final == Product(Returns(c))
                 ann == evaluation.annualized_return[c]
             IN  /\ ~RatLess(Zero, final) => ann = Const(Num(-1))
                 /\ final = One => ann = Const(Zero)
                 /\ (RatLess(Zero, final) /\ final # One) =>
                       /\ ann.kind = "pow" /\ ann.sign = 1
                       /\ ann.base = final /\ ann.rows = total_days

\* one evaluation with a column of negative product, one of product zero
\* and one of positive product other than 1
C12_Witness ==
    /\ evaluation.pc = "returned"
    /\ \E c \in EvalColumns : Complete(Returns(c)) /\ RatLess(Product(Returns(c)), Zero)
    /\ \E c \in EvalColumns : Complete(Returns(c)) /\ Product(Returns(c)) = Zero
    /\ \E c \in EvalColumns : Complete(Returns(c)) /\ RatLess(One, Product(Returns(c)))

\* C13: a column whose annualized volatility is 0 (as for a constant series
\* of two or more rows) or undefined (as for a single row) has the Sharpe
\* ratio 0 itself, not a quotient.
C13_DegenerateSharpe ==
    evaluation.pc = "returned" =>
        \A c \in EvalColumns :
            LET var == evaluation.volatility[c].variance
                s == Returns(c)
            IN  /\ (IsNaN(var) \/ var = Zero) => evaluation.sharpe_ratio[c] = ZeroRatio
                /\ (Complete(s) /\ \A k \in 1..Len(s) : s[k] = s[1]) =>
                      evaluation.sharpe_ratio[c] = ZeroRatio
                /\ Len(s) = 1 => evaluation.sharpe_ratio[c] = ZeroRatio

\* an evaluation with a constant column of volatility 0, a column of
\* undefined volatility and a column with a quotient as Sharpe ratio
C13_Witness ==
    /\ evaluation.pc = "returned"
    /\ total_days >= 2
    /\ \E c \in EvalColumns :
         /\ evaluation.volatility[c].variance = Zero
         /\ Returns(c)[1] # Zero
         /\ evaluation.sharpe_ratio[c] = ZeroRatio
    /\ \E c \in EvalColumns :
         /\ IsNaN(evaluation.volatility[c].variance)
         /\ evaluation.sharpe_ratio[c] = ZeroRatio

\* the cumulative-return path of a complete series never decreases
NeverDecreases(s) ==
    \A k \in 2..Len(s) : ~RatLess(CumProd(s)[k], CumProd(s)[k - 1])

\* C14: the max drawdown of every complete return series is a number <= 0,
\* and 0 when the cumulative-return path never decreases, returns <= -1
\* included.
C14_DrawdownNotPositive ==
    evaluation.pc = "returned" =>
        \A c \in EvalColumns : Complete(Returns(c)) =>
            LET dd == evaluation.max_drawdown[c]
            IN  /\ ~IsNaN(dd)
                /\ ~RatLess(Zero, dd)
                /\ NeverDecreases(Returns(c)) => dd = Zero

\* C15: on the same complete return series calculate_performance and
\* evaluate_portfolio report the same Sharpe ratio, volatility, max drawdown
\* and annualized return; the Sharpe ratio is (annualized return - 0.02) /
\* volatility, or 0 for a volatility that is not positive; the annualized
\* return is -1 for a product of (1 + r) that is not positive. (A product
\* between -1 and 0 is left out of the annualized-return part: its even
\* power can round to 0 in floating point.)
C15_SameMetrics ==
    (evaluation.pc = "returned" /\ performance.pc = "returned"
       /\ Complete(performance.portfolio_returns)
       /\ Returns("High") = performance.portfolio_returns) =>
        LET final == Product(performance.portfolio_returns)
        IN  /\ performance.sharpe_ratio = evaluation.sharpe_ratio["High"]
            /\ performance.volatility = evaluation.volatility["High"]
            /\ performance.max_drawdown = evaluation.max_drawdown["High"]
            /\ VolatilityPositive(performance.volatility) =>
                  /\ ~performance.sharpe_ratio.zero
                  /\ performance.sharpe_ratio.rf = RiskFreeRate
            /\ (final = Zero \/ ~RatLess(Num(-1), final)) =>
                  /\ performance.annualized_return = Const(Num(-1))
                  /\ evaluation.annualized_return["High"] = Const(Num(-1))
            /\ RatLess(Zero, final) =>
                  performance.annualized_return = evaluation.annualized_return["High"]

\* ------------------------------------------------ calculate_factor_scores
MaxScore == 3
FactorNames == <<"PEG", "RSI14">>

\* whether the float x has a rational square root (NaN has the root NaN)
HasRoot(x) ==
    \/ IsNaN(x)
    \/ /\ x[1] >= 0
       /\ \E r \in 0..x[1] : r * r = x[1]
       /\ \E r \in 1..x[2] : r * r = x[2]

\* the square root Series.std() takes of the variance, for a variance that
\* has a rational one
Sqrt(x) ==
    IF IsNaN(x) THEN NaN
    ELSE Rat(CHOOSE r \in 0..x[1] : r * r = x[1],
             CHOOSE r \in 1..x[2] : r * r = x[2])

\* df[factor_name] = pd.Series(values): the values of the tickers of the
\* index, NaN for a ticker without one
FrameColumn(values) ==
    [t \in TickerSet |-> IF t \in DOMAIN values THEN values[t] ELSE NaN]

\* a column as the sequence of its values in index order
Cells(col) == [k \in 1..Len(Tickers) |-> col[Tickers[k]]]

\* Series.std()
Std(col) == Sqrt(Variance(Cells(col)))

\* (df[factor_name] - mean) / std whatever std is
ZScoreUnguarded(col) ==
    [t \in TickerSet |-> RatDiv(RatSub(col[t], Mean(Cells(col))), Std(col))]

\* (df[factor_name] - mean) / std if std > 0, else the column of zeros
ZScore(col) ==
    LET mean == Mean(Cells(col))
        std == Std(col)
    IN  IF ~IsNaN(std) /\ RatLess(Zero, std)
        THEN [t \in TickerSet |-> RatDiv(RatSub(col[t], mean), std)]
        ELSE [t \in TickerSet |-> Zero]

\* every factor counted, with the weight 1.0 when it has none:
\* self.factor_weights.get(factor_name, 1.0) without the test
FactorWeightOrDefault(factor_weights, factor_name) ==
    [counted |-> TRUE,
     weight |-> IF factor_name \in DOMAIN factor_weights
                THEN factor_weights[factor_name] ELSE One]

\* `if factor_name in self.factor_weights` and the weight then used
FactorWeight(factor_weights, factor_name) ==
    [counted |-> factor_name \in DOMAIN factor_weights,
     weight |-> IF factor_name \in DOMAIN factor_weights
                THEN factor_weights[factor_name] ELSE One]

\* the result of one query as a dict ticker -> value: the values of row that
\* are not NaN, and one for a ticker outside the index when outside
QueryResult(row, outside) ==
    [t \in {c \in TickerSet : ~IsNaN(row[c])} \cup (IF outside THEN {"Z"} ELSE {}) |->
        IF t = "Z" THEN One ELSE row[t]]

ScoreCells == {NaN} \cup {Num(v) : v \in 0..MaxScore}
ProgressionRow == [c \in TickerSet |-> IF c = "D" THEN NaN ELSE Num(Pos(c))]
ConstantRow == [c \in TickerSet |-> Num(2)]
NoRowValues == [c \in TickerSet |-> NaN]

\* factor_values after the query loop: the factors whose query returned rows
FactorValues(queried) ==
    [keys |-> Keep(FactorNames, {f \in Range(FactorNames) : DOMAIN queried[f] # {}}),
     at |-> queried]

WeightChoices ==
    { [f \in {} |-> One],
      [f \in {"PEG"} |-> One],
      [f \in {"RSI14"} |-> Rat(1, 2)],
      [f \in {"PEG", "RSI14"} |-> IF f = "PEG" THEN Rat(1, 2) ELSE One],
      [f \in {"PEG", "RSI14"} |-> One] }

InitScore ==
    /\ PipelineIdle
    /\ StrategyIdle
    /\ regression = NotCalled
    /\ evaluation = NotCalled
    /\ performance = NotCalled
    /\ \E peg \in [TickerSet -> ScoreCells],
          rsi \in {QueryResult(NoRowValues, FALSE), QueryResult(NoRowValues, TRUE),
                   QueryResult(ProgressionRow, FALSE), QueryResult(ConstantRow, TRUE)},
          factor_weights \in WeightChoices :
        /\ HasRoot(Variance(Cells(peg)))
        /\ scoring =
             [pc |-> "zscore", exc |-> "", k |-> 1,
              factor_values |->
                 FactorValues([f \in Range(FactorNames) |->
                    IF f = "PEG" THEN QueryResult(peg, FALSE) ELSE rsi]),
              factor_weights |-> factor_weights,
              z_scores |-> [columns |-> <<>>, at |-> [f \in {} |-> NoRowValues]],
              factor_score |-> [t \in TickerSet |-> Zero],
              normalized |-> FALSE]

factor_name == scoring.factor_values.keys[scoring.k]

\* one iteration of the z-score loop; df[factor_name] is the query result
\* put on the index of the tickers
ZScoreFactor ==
    /\ scoring.pc = "zscore"
    /\ scoring.k <= Len(scoring.factor_values.keys)
    /\ scoring' = [scoring EXCEPT
         !.k = @ + 1,
         !.z_scores =
            [columns |-> Append(@.columns, factor_name),
             at |-> [f \in Range(@.columns) \cup {factor_name} |->
                       IF f = factor_name
                       THEN ZScore(FrameColumn(scoring.factor_values.at[factor_name]))
                       ELSE @.at[f]]]]
    /\ UNCHANGED <<pipeline, strategy, regression, evaluation, performance>>

\* factor_score = pd.Series(0, index=z_scores.index)
StartScore ==
    /\ scoring.pc = "zscore"
    /\ scoring.k > Len(scoring.factor_values.keys)
    /\ scoring' = [scoring EXCEPT !.pc = "weigh", !.k = 1]
    /\ UNCHANGED <<pipeline, strategy, regression, evaluation, performance>>

z_column == scoring.z_scores.columns[scoring.k]

\* one iteration of the weighting loop for a factor that is counted
AddFactor ==
    /\ scoring.pc = "weigh"
    /\ scoring.k <= Len(scoring.z_scores.columns)
    /\ LET w == FactorWeight(scoring.factor_weights, z_column)
       IN  /\ w.counted
           /\ scoring' = [scoring EXCEPT
                !.k = @ + 1,
                !.factor_score =
                   [t \in TickerSet |->
                      RatAdd(@[t], RatMul(scoring.z_scores.at[z_column][t], w.weight))]]
    /\ UNCHANGED <<pipeline, strategy, regression, evaluation, performance>>

\* one iteration of the weighting loop for a factor that is not counted
PassFactor ==
    /\ scoring.pc = "weigh"
    /\ scoring.k <= Len(scoring.z_scores.columns)
    /\ ~FactorWeight(scoring.factor_weights, z_column).counted
    /\ scoring' = [scoring EXCEPT !.k = @ + 1]
    /\ UNCHANGED <<pipeline, strategy, regression, evaluation, performance>>

\* the weighting loop is over
EndScore ==
    /\ scoring.pc = "weigh"
    /\ scoring.k > Len(scoring.z_scores.columns)
    /\ scoring' = [scoring EXCEPT !.pc = "normalize"]
    /\ UNCHANGED <<pipeline, strategy, regression, evaluation, performance>>

\* the final standardisation and the return: (factor_score - mean) / std when
\* std > 0, kept as the score it is applied to
NormalizeScore ==
    /\ scoring.pc = "normalize"
    /\ LET var == Variance(Cells(scoring.factor_score))
       IN  scoring' = [scoring EXCEPT
             !.pc = "returned",
             !.normalized = ~IsNaN(var) /\ RatLess(Zero, var)]
    /\ UNCHANGED <<pipeline, strategy, regression, evaluation, performance>>

NextScore ==
    \/ ZScoreFactor
    \/ StartScore
    \/ AddFactor
    \/ PassFactor
    \/ EndScore
    \/ NormalizeScore

SpecScore == InitScore /\ [][NextScore]_vars

\* the values the index tickers have for the factor
Available(f) ==
    {FrameColumn(scoring.factor_values.at[f])[t] : t \in TickerSet} \ {NaN}

\* all available values equal, only one available, or none
Degenerate(f) == Cardinality(Available(f)) <= 1

RECURSIVE WeightedSum(_)
\* the sum over the factors cols of weight x z-score, ticker by ticker
WeightedSum(cols) ==
    IF cols = <<>> THEN [t \in TickerSet |-> Zero]
    ELSE [t \in TickerSet |->
            RatAdd(WeightedSum(Tail(cols))[t],
                   RatMul(scoring.factor_weights[Head(cols)],
                          scoring.z_scores.at[Head(cols)][t]))]

Weighted == DOMAIN scoring.factor_weights

\* C16: a factor whose available values on the scoring date are all equal,
\* or that has one value or none, gets the z-score 0 for every ticker, and
\* the composite score is the one the other factors give.
C16_DegenerateFactorIsZero ==
    /\ \A f \in Range(scoring.z_scores.columns) :
         Degenerate(f) => \A t \in TickerSet : scoring.z_scores.at[f][t] = Zero
    /\ scoring.pc \in {"normalize", "returned"} =>
         scoring.factor_score =
            WeightedSum(Keep(scoring.z_scores.columns,
                             {f \in Weighted : ~Degenerate(f)}))

\* a composite score with a weighted factor of four equal values and a
\* weighted factor that gives some ticker a score other than 0
C16_Witness ==
    /\ scoring.pc = "returned"
    /\ \E f \in Range(scoring.z_scores.columns) \cap Weighted :
         /\ Degenerate(f)
         /\ Available(f) # {}
         /\ \A t \in TickerSet : t \in DOMAIN scoring.factor_values.at[f]
    /\ \E t \in TickerSet :
         ~IsNaN(scoring.factor_score[t]) /\ scoring.factor_score[t] # Zero

\* C17: the composite score before the final standardisation is the sum of
\* weight x z-score over the factors that have values and a weight; a factor
\* with values and no weight raises nothing and changes no ticker's score.
C17_WeightedSumOfPresent ==
    /\ scoring.exc = ""
    /\ scoring.pc \in {"normalize", "returned"} =>
         /\ scoring.factor_score =
               WeightedSum(Keep(scoring.z_scores.columns, Weighted))
         /\ Range(scoring.z_scores.columns) = Range(scoring.factor_values.keys)

\* a composite score other than 0 computed next to a factor that has
\* unequal values and no weight
C17_Witness ==
    /\ scoring.pc = "normalize"
    /\ \E f \in Range(scoring.z_scores.columns) \ Weighted : ~Degenerate(f)
    /\ \E f \in Range(scoring.z_scores.columns) \cap Weighted : ~Degenerate(f)
    /\ \E t \in TickerSet :
         ~IsNaN(scoring.factor_score[t]) /\ scoring.factor_score[t] # Zero

\* ------------------------------------- construct_portfolios, continued
\* C18: the frame construct_portfolios returns has one row per date of the
\* return index, and on every skipped date High, Low and Factor are all 0.
C18_SkippedDatesAreZero ==
    pc = "returned" =>
        /\ portfolio_returns.index = returns_df.index
        /\ \A d \in Range(returns_df.index) : Skipped(d) =>
             /\ portfolio_returns.columns = PortfolioColumns
             /\ RowOf(d) = [High |-> Zero, Low |-> Zero, Factor |-> Zero]

\* the members of a group that have a market cap at the prior date p
Capped(p, stocks) ==
    IF p \in Range(market_cap_df.index)
    THEN Keep(stocks, {c \in Range(stocks) : ~IsNaN(market_cap_df.at[p][c])})
    ELSE <<>>

RECURSIVE CapSum(_, _)
CapSum(p, stocks) ==
    IF stocks = <<>> THEN Zero
    ELSE RatAdd(market_cap_df.at[p][Head(stocks)], CapSum(p, Tail(stocks)))

RECURSIVE CapWeighted(_, _, _, _)
\* the sum over stocks of cap / total x return on d
CapWeighted(p, d, stocks, total) ==
    IF stocks = <<>> THEN Zero
    ELSE RatAdd(RatMul(RatDiv(market_cap_df.at[p][Head(stocks)], total),
                       returns_df.at[d][Head(stocks)]),
                CapWeighted(p, d, Tail(stocks), total))

\* the return the group's own market caps call for
OwnCapsDecide(d, stocks, ret) ==
    LET p == locals[d].prev_date
        capped == Capped(p, stocks)
        total == CapSum(p, capped)
    IN  (\A c \in Range(stocks) : ~IsNaN(returns_df.at[d][c])) =>
            IF capped # <<>> /\ RatLess(Zero, total)
            THEN ret = CapWeighted(p, d, capped, total)
            ELSE ret = RatDiv(SumCells(stocks, returns_df.at[d]), Num(Len(stocks)))

\* C19: on a computed date each group is weighted by its own market caps: a
\* group whose prior-date caps are available and sum to a positive number
\* returns the sum of cap / total group cap x return, a group without them
\* returns the equal-weighted mean, whatever the caps of the other group.
C19_WeightingPerGroup ==
    \A d \in Dates : Computed(d) =>
        /\ OwnCapsDecide(d, locals[d].high, RowOf(d).High)
        /\ OwnCapsDecide(d, locals[d].low, RowOf(d).Low)

\* C20: on a computed date (n_groups >= 1), assets with equal factor values
\* at the prior date are ranked in their column order.
C20_TiesInColumnOrder ==
    \A d \in Dates : (Computed(d) /\ n_groups >= 1) =>
        LET ranked == locals[d].ranked
            row == factor_df.at[locals[d].prev_date]
        IN  \A j, k \in 1..Len(ranked) :
                (j < k /\ row[ranked[j]] = row[ranked[k]]) =>
                    IndexOf(factor_df.columns, ranked[j]) < IndexOf(factor_df.columns, ranked[k])

\* ------------------------------------------------- test_factor, continued
\* the dates on which the ticker has a return and the spread series has no
\* entry
Unmatched(c) ==
    {d \in Range(regression.returns_df.index) :
        /\ ~IsNaN(regression.returns_df.at[d][c])
        /\ d \notin Range(regression.factor_returns.index)}

\* C22: in test_factor, a date on which a ticker has a return and the spread
\* series has no entry is dropped from the ticker's sample: the call raises
\* no error, and once it has returned every ticker with at least 30 aligned
\* dates has its entry.
C22_UnmatchedDateDropped ==
    (\E c \in Range(regression.returns_df.columns) : Unmatched(c) # {}) =>
        /\ regression.pc # "raised"
        /\ regression.pc = "returned" =>
             \A c \in Range(regression.returns_df.columns) :
                 c \in Range(regression.tickers) <=> Cardinality(AlignedDates(c)) >= 30

\* ------------------------------------------ evaluate_portfolio, continued
\* the series without its rows of return 0: the skipped dates left out
\* instead of zero-filled
WithoutZeroRows(s) == Keep(s, {x \in Range(s) : x # Zero})

\* C23: for a complete return series, evaluate_portfolio reports the
\* annualized return, volatility, Sharpe ratio and max drawdown it reports
\* for the series without its rows of return 0.
C23_ZeroRowsChangeNothing ==
    evaluation.pc = "returned" =>
        \A c \in EvalColumns :
            LET absent == WithoutZeroRows(Returns(c))
                cum == CumProd(absent)
                ann == AnnualizedReturn(cum[Len(absent)], Len(absent))
            IN  (Complete(Returns(c)) /\ absent # <<>>) =>
                    /\ evaluation.annualized_return[c] = ann
                    /\ evaluation.volatility[c] = Volatility(absent)
                    /\ evaluation.sharpe_ratio[c] =
                          SharpeRatio(ann, RiskFreeRate, Volatility(absent))
                    /\ evaluation.max_drawdown[c] = MaxDrawdown(cum)

\* ----------------------------------- construct_portfolios, partial caps
\* the weights are numbers that are not negative and sum to 1
SumToOne(w) ==
    /\ \A c \in Range(w.index) : ~IsNaN(w.at[c]) /\ ~RatLess(w.at[c], Zero)
    /\ SumCells(w.index, w.at) = One

RECURSIVE AppliedReturn(_, _, _)
\* the sum over stocks of weight x return on d
AppliedReturn(d, stocks, w) ==
    IF stocks = <<>> THEN Zero
    ELSE RatAdd(RatMul(w.at[Head(stocks)], returns_df.at[d][Head(stocks)]),
                AppliedReturn(d, Tail(stocks), w))

\* a group some but not all of whose members lack a cap at the prior date:
\* the members with a cap carry weights that sum to 1, the others add
\* nothing to the group return
PartialCaps(d, stocks, w, ret) ==
    LET capped == Capped(locals[d].prev_date, stocks)
    IN  (capped # <<>> /\ capped # stocks) =>
            /\ w.index = capped
            /\ SumToOne(w)
            /\ (\A c \in Range(stocks) : ~IsNaN(returns_df.at[d][c])) =>
                  ret = AppliedReturn(d, capped, w)

\* C30: on a computed date the weights applied to each group are not
\* negative and sum to 1, and in a group where some but not all members lack
\* a market cap at the prior date the members with a cap carry all the
\* weight and the others contribute nothing to the group return.
C30_PartialCaps ==
    \A d \in Dates : Computed(d) =>
        /\ SumToOne(locals[d].high_weights)
        /\ SumToOne(locals[d].low_weights)
        /\ PartialCaps(d, locals[d].high, locals[d].high_weights, RowOf(d).High)
        /\ PartialCaps(d, locals[d].low, locals[d].low_weights, RowOf(d).Low)

\* ------------------------------- construct_portfolios, the dates apart
\* The loop body run on the dates of a subset of the return index, in any
\* order, by workers that share the three input panels and store their rows
\* in one frame, after the sequential call has ended.
InitOrder ==
    /\ \E fidx \in SUBSET Dates, midx \in {Dates, Dates \ {1}},
          base \in {DescendingRow, SparseRow}, ng \in 1..2,
          mcols \in {Tickers, SubSeq(Tickers, 1, Len(Tickers) - 1)} :
        Start(FixedPrices, Panel(fidx, Tickers, base, TRUE),
              Panel(midx, mcols, CapRow, TRUE), ng, "BaseFactor")
    /\ tie_order = "column"
    /\ regression = NotCalled
    /\ evaluation = NotCalled
    /\ performance = NotCalled
    /\ scoring = NotCalled
    /\ StrategyIdle

LeftOut == [NoLocals EXCEPT !.state = "left out"]
Pending(d) == locals[d].state = "pending"

\* the dates are handed out: a new frame over the return index
SplitDates ==
    /\ pc = "back"
    /\ \E chunk \in SUBSET Range(returns_df.index) :
         locals' = [d \in Dates |-> IF d \in chunk THEN NoLocals ELSE LeftOut]
    /\ call' = 2
    /\ portfolio_returns' = NewPortfolioFrame(returns_df)
    /\ exc' = ""
    /\ pc' = "workers"
    /\ UNCHANGED <<analysis, inputs, factor_df, returns_df, return_series, i,
                   first, results>>

\* the loop body on a date that ends in a continue
SkipAnyDate ==
    /\ pc = "workers"
    /\ \E d \in Range(returns_df.index) :
         /\ Pending(d)
         /\ SkipsDate(factor_df, returns_df, n_groups, d)
         /\ locals' = [locals EXCEPT ![d] = [NoLocals EXCEPT !.state = "skipped"]]
    /\ UNCHANGED <<analysis, inputs, factor_df, returns_df, return_series,
                   portfolio_returns, i, pc, exc, call, first, results>>

\* the loop body on a date that stores its three returns
ComputeAnyDate ==
    /\ pc = "workers"
    /\ \E d \in Range(returns_df.index) :
         /\ Pending(d)
         /\ ~SkipsDate(factor_df, returns_df, n_groups, d)
         /\ LET e == Evaluate(factor_df, returns_df, market_cap_df, n_groups, impl, d)
            IN  /\ e.exc = ""
                /\ portfolio_returns' =
                     [portfolio_returns EXCEPT
                        !.columns = PortfolioColumns,
                        !.at = [x \in Range(portfolio_returns.index) |->
                                  IF x = d THEN e.row
                                  ELSE IF portfolio_returns.columns = <<>> THEN NoRow
                                  ELSE portfolio_returns.at[x]]]
                /\ locals' = [locals EXCEPT ![d] =
                     [state |-> "computed", prev_date |-> e.prev_date,
                      ranked |-> e.ranked, high |-> e.high, low |-> e.low,
                      high_weights |-> e.high_weights, low_weights |-> e.low_weights]]
                /\ factor_df' = PanelAfterDropNa(factor_df, e.prev_date)
    /\ UNCHANGED <<analysis, inputs, returns_df, return_series, i, pc, exc, call,
                   first, results>>

\* the loop body on a date that raises
RaiseInAnyDate ==
    /\ pc = "workers"
    /\ \E d \in Range(returns_df.index) :
         /\ Pending(d)
         /\ ~SkipsDate(factor_df, returns_df, n_groups, d)
         /\ LET e == Evaluate(factor_df, returns_df, market_cap_df, n_groups, impl, d)
            IN  /\ e.exc # ""
                /\ exc' = e.exc
                /\ locals' = [locals EXCEPT ![d] =
                     [NoLocals EXCEPT !.state = "raised", !.prev_date = e.prev_date,
                                      !.ranked = e.ranked, !.high = e.high, !.low = e.low]]
    /\ pc' = "raised"
    /\ UNCHANGED <<analysis, inputs, factor_df, returns_df, return_series,
                   portfolio_returns, i, call, first, results>>

\* every date handed out is done: portfolio_returns.fillna(0)
MergeRows ==
    /\ pc = "workers"
    /\ \A d \in Range(returns_df.index) : ~Pending(d)
    /\ portfolio_returns' = [portfolio_returns EXCEPT !.at = FillRows(@)]
    /\ pc' = "merged"
    /\ UNCHANGED <<analysis, inputs, factor_df, returns_df, return_series, i, locals,
                   exc, call, first, results>>

NextOrder ==
    \/ CalculateReturns
    \/ SkipDate
    \/ ComputeDate
    \/ RaiseInDate
    \/ Return
    \/ StoreResults
    \/ CatchException
    \/ SplitDates
    \/ SkipAnyDate
    \/ ComputeAnyDate
    \/ RaiseInAnyDate
    \/ MergeRows

SpecOrder == InitOrder /\ [][NextOrder]_vars

ZeroRow == [High |-> Zero, Low |-> Zero, Factor |-> Zero]
FilledRow(row) == [c \in DOMAIN row |-> IF IsNaN(row[c]) THEN Zero ELSE row[c]]

IntOfProduct(n, pct) == (n * pct[1]) \div pct[2]

\* factor_score.sort_values(ascending=False): the scores in descending
\* order, the tickers without a score last (na_position='last')
SortValues(labels, row) ==
    SortDescending(DropNa(labels, row), row) \o
    Keep(labels, {c \in Range(labels) : IsNaN(row[c])})

\* pd.Series(0, index=self.tickers)
NoPositions == [t \in TickerSet |-> Zero]

\* Series.update(other): the values of other that are not NaN replace the
\* ones of the same label
Update(positions, stocks, other) ==
    [t \in DOMAIN positions |->
        IF t \in Range(stocks) /\ ~IsNaN(other[t]) THEN other[t] ELSE positions[t]]

\* `caps / caps.sum() if caps.sum() > 0 else pd.Series(1/len(stocks), index=stocks)`
\* raises ZeroDivisionError for no stocks
WeightsRaise(market_cap, stocks) == stocks = <<>>
CapWeights(market_cap, stocks) ==
    LET total == SumCells(stocks, market_cap)
    IN  [c \in Range(stocks) |->
           IF RatLess(Zero, total) THEN RatDiv(market_cap[c], total)
           ELSE Rat(1, Len(stocks))]

\* the except branch of construct_portfolio: the empty portfolio
EmptyPortfolio(error) ==
    [positions |-> NoPositions, long_stocks |-> <<>>, short_stocks |-> <<>>,
     error |-> error]

\* LongShortStrategy.construct_portfolio
LongShortPortfolio(factor_score, market_cap, st) ==
    LET sorted_stocks == SortValues(Tickers, factor_score)
        long_count == IntOfProduct(Len(sorted_stocks), st.long_pct)
        long_stocks == SliceTo(sorted_stocks, long_count)
        short_count == IntOfProduct(Len(sorted_stocks), st.short_pct)
        short_stocks == SliceFromMinus(sorted_stocks, short_count)
        long_weights == CapWeights(market_cap, long_stocks)
        short_weights == CapWeights(market_cap, short_stocks)
        long_positions == [c \in Range(long_stocks) |->
                             RatMul(long_weights[c], st.long_allocation)]
        short_positions == [c \in Range(short_stocks) |->
                              RatMul(RatMul(short_weights[c], st.short_allocation), Num(-1))]
    IN  IF WeightsRaise(market_cap, long_stocks) \/ WeightsRaise(market_cap, short_stocks)
        THEN EmptyPortfolio("ZeroDivisionError")
        ELSE [positions |-> Update(Update(NoPositions, long_stocks, long_positions),
                                   short_stocks, short_positions),
              long_stocks |-> long_stocks, short_stocks |-> short_stocks,
              error |-> ""]

\* the count taken without `min(selection_count, len(sorted_stocks))`
SelectionCountUncapped(n, st) ==
    IF IntOfProduct(n, st.selection_pct) > st.min_stocks
    THEN IntOfProduct(n, st.selection_pct) ELSE st.min_stocks

\* min(max(int(len(sorted_stocks) * selection_pct), min_stocks), len(sorted_stocks))
SelectionCount(n, st) ==
    LET wanted == IF IntOfProduct(n, st.selection_pct) > st.min_stocks
                  THEN IntOfProduct(n, st.selection_pct) ELSE st.min_stocks
    IN  IF wanted < n THEN wanted ELSE n

\* LongOnlyStrategy.construct_portfolio; the selected stocks are kept in the
\* long_stocks field
LongOnlyPortfolio(factor_score, market_cap, st) ==
    LET sorted_stocks == SortValues(Tickers, factor_score)
        selection_count == SelectionCount(Len(sorted_stocks), st)
        selected_stocks == SliceTo(sorted_stocks, selection_count)
        weights == IF st.equal_weight
                   THEN [c \in Range(selected_stocks) |-> Rat(1, selection_count)]
                   ELSE CapWeights(market_cap, selected_stocks)
        raises == IF st.equal_weight THEN selection_count = 0
                  ELSE WeightsRaise(market_cap, selected_stocks)
    IN  IF raises THEN EmptyPortfolio("ZeroDivisionError")
        ELSE [positions |-> Update(NoPositions, selected_stocks, weights),
              long_stocks |-> selected_stocks, short_stocks |-> <<>>,
              error |-> ""]

\* the strategies followed: long_allocation=0.8 and short_allocation=0.5,
\* the defaults, with the default and other percentages
LongShortChoices ==
    {[kind |-> "LongShort", long_pct |-> lp, short_pct |-> sp,
      long_allocation |-> Rat(4, 5), short_allocation |-> Rat(1, 2)] :
        lp \in {Rat(2, 5), Rat(1, 2), Rat(1, 5)}, sp \in {Rat(1, 5), Rat(1, 2)}}
LongOnlyChoices ==
    {[kind |-> "LongOnly", selection_pct |-> pct, min_stocks |-> m,
      equal_weight |-> eq] :
        pct \in {Rat(1, 2), Rat(1, 5)}, m \in {0, 1, 5}, eq \in BOOLEAN}

\* what the market-cap query returns: a cap for every ticker, no row, or
\* rows with zero caps and without ticker B
CapQueries ==
    {QueryResult(CapRow, FALSE), QueryResult(NoRowValues, FALSE),
     QueryResult([c \in TickerSet |-> IF c = "B" THEN NaN
                                      ELSE IF c = "A" THEN One ELSE Zero], FALSE)}

\* np.random.uniform(10e9, 500e9) for every ticker: some positive caps
SyntheticCaps == {CapRow, [c \in TickerSet |-> Num(1 + Len(Tickers) - Pos(c))]}

InitRebalance ==
    /\ PipelineIdle
    /\ regression = NotCalled
    /\ evaluation = NotCalled
    /\ performance = NotCalled
    /\ run = NotCalled
    /\ trading = NotCalled
    /\ \E peg \in [TickerSet -> ScoreCells] :
        /\ HasRoot(Variance(Cells(peg)))
        /\ scoring =
             [pc |-> "zscore", exc |-> "", k |-> 1,
              factor_values |->
                 FactorValues([f \in Range(FactorNames) |->
                    IF f = "PEG" THEN QueryResult(peg, FALSE)
                    ELSE QueryResult(NoRowValues, FALSE)]),
              factor_weights |-> [f \in {"PEG"} |-> One],
              z_scores |-> [columns |-> <<>>, at |-> [f \in {} |-> NoRowValues]],
              factor_score |-> [t \in TickerSet |-> Zero],
              normalized |-> FALSE]
    /\ \E st \in LongShortChoices \cup LongOnlyChoices, caps \in CapQueries :
        rebalance = [pc |-> "score", strategy |-> st, query |-> caps,
                     market_cap |-> NoRowValues,
                     portfolio |-> EmptyPortfolio(""),
                     positions |-> NoPositions]

\* market_cap = self.get_market_cap(date_str): the query result on the index
\* of the tickers, synthetic caps when the query returns no row
GetMarketCap ==
    /\ scoring.pc = "returned"
    /\ rebalance.pc = "score"
    /\ \E synthetic \in SyntheticCaps :
         rebalance' = [rebalance EXCEPT
            !.pc = "construct",
            !.market_cap = IF DOMAIN rebalance.query # {}
                           THEN FrameColumn(rebalance.query) ELSE synthetic]
    /\ UNCHANGED <<pipeline, regression, evaluation, performance, scoring, run, trading>>

\* portfolio = self.construct_portfolio(...) of a LongShortStrategy
ConstructLongShort ==
    /\ rebalance.pc = "construct"
    /\ rebalance.strategy.kind = "LongShort"
    /\ rebalance' = [rebalance EXCEPT
         !.pc = "update",
         !.portfolio = LongShortPortfolio(scoring.factor_score, rebalance.market_cap,
                                          rebalance.strategy)]
    /\ UNCHANGED <<pipeline, regression, evaluation, performance, scoring, run, trading>>

\* portfolio = self.construct_portfolio(...) of a LongOnlyStrategy
ConstructLongOnly ==
    /\ rebalance.pc = "construct"
    /\ rebalance.strategy.kind = "LongOnly"
    /\ rebalance' = [rebalance EXCEPT
         !.pc = "update",
         !.portfolio = LongOnlyPortfolio(scoring.factor_score, rebalance.market_cap,
                                         rebalance.strategy)]
    /\ UNCHANGED <<pipeline, regression, evaluation, performance, scoring, run, trading>>

\* positions.loc[date, ticker] = weight for every ticker of the portfolio
UpdatePositions ==
    /\ rebalance.pc = "update"
    /\ rebalance' = [rebalance EXCEPT
         !.pc = "done",
         !.positions = rebalance.portfolio.positions]
    /\ UNCHANGED <<pipeline, regression, evaluation, performance, scoring, run, trading>>

NextRebalance ==
    \/ ZScoreFactor
    \/ StartScore
    \/ AddFactor
    \/ EndScore
    \/ NormalizeScore
    \/ GetMarketCap
    \/ ConstructLongShort
    \/ ConstructLongOnly
    \/ UpdatePositions

SpecRebalance == InitRebalance /\ [][NextRebalance]_vars

\* the portfolio of the date has been constructed
Constructed(kind) ==
    rebalance.pc \in {"update", "done"} /\ rebalance.strategy.kind = kind

\* ticker a is ranked no lower than ticker b: a missing score is the lowest
ScoreAtLeast(a, b) ==
    \/ IsNaN(scoring.factor_score[b])
    \/ /\ ~IsNaN(scoring.factor_score[a])
       /\ ~RatLess(scoring.factor_score[a], scoring.factor_score[b])
TopOf(S) == \A a \in S, b \in TickerSet \ S : ScoreAtLeast(a, b)
BottomOf(S) == \A a \in S, b \in TickerSet \ S : ScoreAtLeast(b, a)

\* C24: the long set of a LongShortStrategy portfolio has exactly
\* int(n x long_pct) members from the top of the ranking, the short set
\* exactly int(n x short_pct) members from the bottom, no ticker is in both,
\* and with int(n x short_pct) = 0 no position is negative.
C24_LongAndShortSets ==
    Constructed("LongShort") =>
        LET n == Len(Tickers)
            long_count == IntOfProduct(n, rebalance.strategy.long_pct)
            short_count == IntOfProduct(n, rebalance.strategy.short_pct)
            long == rebalance.portfolio.long_stocks
            short == rebalance.portfolio.short_stocks
        IN  /\ Len(long) = long_count /\ Cardinality(Range(long)) = long_count
            /\ TopOf(Range(long))
            /\ Len(short) = short_count /\ Cardinality(Range(short)) = short_count
            /\ BottomOf(Range(short))
            /\ Range(long) \cap Range(short) = {}
            /\ short_count = 0 =>
                 \A t \in TickerSet : ~RatLess(rebalance.portfolio.positions[t], Zero)

\* C27: with at least one long and one short position to fill, a ticker
\* whose composite score is undefined is in neither set of the
\* LongShortStrategy portfolio and has position 0.
C27_UnscoredTickerLeftOut ==
    (/\ Constructed("LongShort")
     /\ IntOfProduct(Len(Tickers), rebalance.strategy.long_pct) >= 1
     /\ IntOfProduct(Len(Tickers), rebalance.strategy.short_pct) >= 1) =>
        \A t \in TickerSet : IsNaN(scoring.factor_score[t]) =>
            /\ t \notin Range(rebalance.portfolio.long_stocks)
            /\ t \notin Range(rebalance.portfolio.short_stocks)
            /\ rebalance.portfolio.positions[t] = Zero

\* min(max(int(n x selection_pct), min_stocks), n)
Selected(n) ==
    LET pct == IntOfProduct(n, rebalance.strategy.selection_pct)
        most == IF pct > rebalance.strategy.min_stocks THEN pct
                ELSE rebalance.strategy.min_stocks
    IN  IF most < n THEN most ELSE n

\* the position of a selected ticker under market-cap weights: its cap over
\* the sum of the selected caps, 0 without a cap; 1/k when the caps do not
\* sum to a positive number
CapPosition(t, selected) ==
    LET total == SumCells(selected, rebalance.market_cap)
    IN  IF RatLess(Zero, total)
        THEN (IF IsNaN(rebalance.market_cap[t]) THEN Zero
              ELSE RatDiv(rebalance.market_cap[t], total))
        ELSE Rat(1, Len(selected))

\* what C28 says of every LongOnlyStrategy portfolio, for the weights given
LongOnlyPositions(weight(_, _)) ==
    Constructed("LongOnly") =>
        LET k == Selected(Len(Tickers))
            selected == rebalance.portfolio.long_stocks
            positions == rebalance.portfolio.positions
        IN  /\ \A t \in TickerSet : ~IsNaN(positions[t]) /\ ~RatLess(positions[t], Zero)
            /\ Len(selected) = k /\ Cardinality(Range(selected)) = k
            /\ TopOf(Range(selected))
            /\ \A t \in TickerSet \ Range(selected) : positions[t] = Zero
            /\ k >= 1 =>
                 /\ SumCells(Tickers, positions) = One
                 /\ \A t \in Range(selected) : positions[t] = weight(t, selected)

\* C28 as stated: market-cap weights whenever the selected caps sum to a
\* positive number, equal weights otherwise.
C28_CapWeightsWhenCapsPositive == LongOnlyPositions(CapPosition)

\* the weight with the equal_weight option counted
OptionPosition(t, selected) ==
    IF rebalance.strategy.equal_weight THEN Rat(1, Len(selected))
    ELSE CapPosition(t, selected)

\* C28: no position of a LongOnlyStrategy portfolio is negative; exactly
\* min(max(int(n x selection_pct), min_stocks), n) tickers are selected from
\* the top of the ranking, the others have position 0, and with at least
\* one ticker selected the positions sum to 1: equal weights when
\* equal_weight is set or the selected caps do not sum to a positive number,
\* market-cap weights otherwise.
C28_LongOnlyPositions == LongOnlyPositions(OptionPosition)

\* a portfolio of two selected tickers with unequal caps under equal_weight,
\* and one of min_stocks = 5 cut down to the four tickers
C28_Witness ==
    /\ Constructed("LongOnly")
    /\ rebalance.pc = "done"
    /\ LET selected == rebalance.portfolio.long_stocks
       IN  \/ /\ rebalance.strategy.equal_weight
              /\ Len(selected) = 2
              /\ \E t \in Range(selected) :
                   rebalance.positions[t] # CapPosition(t, selected)
           \/ /\ ~rebalance.strategy.equal_weight
              /\ rebalance.strategy.min_stocks > Len(Tickers)
              /\ Len(selected) = Len(Tickers)
              /\ \E t, u \in Range(selected) :
                   RatLess(rebalance.positions[t], rebalance.positions[u])

\* ------------------------------------------------------------ run_strategy
MaxRebalance == 3    \* rebalance dates are 1..MaxRebalance

\* rows of positions a construct_portfolio call can return: a long-only
\* one, a long-short one, and the all-zero row of its except branch
PositionChoices ==
    {[t \in TickerSet |-> IF t \in {"A", "B"} THEN Rat(1, 2) ELSE Zero],
     [t \in TickerSet |-> IF t = "A" THEN Rat(4, 5)
                          ELSE IF t = "D" THEN Rat(-1, 2) ELSE Zero],
     NoPositions}

\* the calls of the try block, in order
TrySteps == <<"calculate_factor_scores", "get_market_cap", "construct_portfolio">>

\* the except clause around the whole loop: an exception ends the loop
AfterExceptOutside(k, rebalance_dates) == Len(rebalance_dates) + 1

\* the except clause is inside the loop: the loop goes on with the next date
AfterExcept(k, rebalance_dates) == k + 1

\* positions = pd.DataFrame(index=rebalance_dates, columns=self.tickers)
\* .fillna(0), and the empty composition
InitRun ==
    /\ PipelineIdle
    /\ regression = NotCalled
    /\ evaluation = NotCalled
    /\ performance = NotCalled
    /\ scoring = NotCalled
    /\ rebalance = NotCalled
    /\ trading = NotCalled
    /\ \E n \in 1..MaxRebalance :
        run = [pc |-> "loop", k |-> 1, step |-> 1,
               rebalance_dates |-> [d \in 1..n |-> d],
               positions |-> [d \in 1..n |-> NoPositions],
               portfolio |-> NoPositions,
               portfolio_composition |-> [dates |-> <<>>, positions |-> <<>>],
               raised |-> [d \in 1..n |-> ""]]

InRunLoop == run.pc = "loop" /\ run.k <= Len(run.rebalance_dates)
rebalance_date == run.rebalance_dates[run.k]

\* calculate_factor_scores or get_market_cap returns
CallReturns ==
    /\ InRunLoop
    /\ run.step < Len(TrySteps)
    /\ run' = [run EXCEPT !.step = @ + 1]
    /\ UNCHANGED <<pipeline, regression, evaluation, performance, scoring,
                   rebalance, trading>>

\* construct_portfolio returns a portfolio
PortfolioReturned ==
    /\ InRunLoop
    /\ run.step = Len(TrySteps)
    /\ \E row \in PositionChoices :
         run' = [run EXCEPT !.step = @ + 1, !.portfolio = row]
    /\ UNCHANGED <<pipeline, regression, evaluation, performance, scoring,
                   rebalance, trading>>

\* one of the three calls raises: the except clause logs the error
ExceptInDate ==
    /\ InRunLoop
    /\ run.step <= Len(TrySteps)
    /\ run' = [run EXCEPT
         !.raised[rebalance_date] = TrySteps[run.step],
         !.k = AfterExcept(@, run.rebalance_dates),
         !.step = 1]
    /\ UNCHANGED <<pipeline, regression, evaluation, performance, scoring,
                   rebalance, trading>>

\* the row of positions is written and the date and the portfolio appended
TrackComposition ==
    /\ InRunLoop
    /\ run.step = Len(TrySteps) + 1
    /\ run' = [run EXCEPT
         !.positions[rebalance_date] = run.portfolio,
         !.portfolio_composition =
            [dates |-> Append(@.dates, rebalance_date),
             positions |-> Append(@.positions, run.portfolio)],
         !.k = @ + 1,
         !.step = 1]
    /\ UNCHANGED <<pipeline, regression, evaluation, performance, scoring,
                   rebalance, trading>>

\* return positions, portfolio_composition
ReturnPositions ==
    /\ run.pc = "loop"
    /\ run.k > Len(run.rebalance_dates)
    /\ run' = [run EXCEPT !.pc = "returned"]
    /\ UNCHANGED <<pipeline, regression, evaluation, performance, scoring,
                   rebalance, trading>>

NextRun ==
    \/ CallReturns
    \/ PortfolioReturned
    \/ ExceptInDate
    \/ TrackComposition
    \/ ReturnPositions

SpecRun == InitRun /\ [][NextRun]_vars

\* C29: a rebalance date on which scoring, the market-cap lookup or the
\* portfolio construction raised keeps its row of zero positions and is not
\* in the composition; every date is gone through before run_strategy
\* returns, the dates after a raising one included; the dates and positions
\* lists of the composition have the same length, one entry for each date
\* that did not raise, in date order.
C29_RaisingDateSkipped ==
    LET dates == run.rebalance_dates
        composition == run.portfolio_composition
        done == Keep(dates, {d \in Range(dates) :
                               /\ run.raised[d] = ""
                               /\ run.pc = "returned" \/ d < run.k})
    IN  /\ \A d \in Range(dates) : run.raised[d] # "" =>
              /\ run.positions[d] = NoPositions
              /\ d \notin Range(composition.dates)
        /\ Len(composition.dates) = Len(composition.positions)
        /\ composition.dates = done
        /\ \A j \in 1..Len(done) : composition.positions[j] = run.positions[done[j]]
        /\ run.pc = "returned" => run.k = Len(dates) + 1

\* a run returned with a first date that raised and a last date that has
\* positions and its entry in the composition
C29_Witness ==
    /\ run.pc = "returned"
    /\ Len(run.rebalance_dates) >= 2
    /\ run.raised[1] # ""
    /\ LET last == Len(run.rebalance_dates)
       IN  /\ run.positions[last] # NoPositions
           /\ last \in Range(run.portfolio_composition.dates)

\* ------------------------------- apply_risk_management, calculate_performance
MaxDay == 5    \* the price index is 1..MaxDay

Days == 1..MaxDay

\* self.stop_loss / self.take_profit left at None
NoLimit == <<>>

\* indexes of the positions frame: the rebalance dates of run_strategy
RebalanceChoices ==
    {idx \in {<<2>>, <<1, 3>>, <<2, 3>>, <<2, 4>>, <<1, 3, 5>>} :
        idx[Len(idx)] <= MaxDay}

\* rows of the positions frame as run_strategy fills them
HeldChoices ==
    {[t \in TickerSet |-> IF t \in {"A", "B"} THEN Rat(1, 2) ELSE Zero],
     [t \in TickerSet |-> IF t = "A" THEN Rat(4, 5)
                          ELSE IF t = "B" THEN Rat(-1, 2) ELSE Zero],
     [t \in TickerSet |-> IF t = "B" THEN One ELSE Zero],
     NoPositions}

\* closes of the price frame: A moves between 2 and 4, B against it
PriceChoices ==
    {[d \in Days |-> [t \in TickerSet |->
         IF t = "A" THEN Num(a[d]) ELSE IF t = "B" THEN Num(6 - a[d]) ELSE Num(3)]] :
       a \in [Days -> {2, 4}]}

\* price_data.pct_change().fillna(0), column by column
DailyStockReturns(prices) ==
    [d \in Days |-> [t \in TickerSet |->
        LET change == PctChange([index |-> [k \in 1..MaxDay |-> k],
                                 at |-> [e \in Days |-> prices[e][t]]]).at[d]
        IN  IF IsNaN(change) THEN Zero ELSE change]]

\* daily_return = 0; for ticker in self.tickers: daily_return += weight * stock_return
RECURSIVE DailyReturn(_, _, _)
DailyReturn(tickers, weight, stock_return) ==
    IF tickers = <<>> THEN Zero
    ELSE LET t == tickers[Len(tickers)]
         IN  RatAdd(DailyReturn(SubSeq(tickers, 1, Len(tickers) - 1), weight, stock_return),
                    RatMul(weight[t], stock_return[t]))

\* np.sign(position)
Sign(position) ==
    IF position[1] > 0 THEN One ELSE IF position[1] < 0 THEN Num(-1) ELSE Zero

\* positions.index[i+1] if i+1 < len(positions.index) else <last date>
NextRebalanceDate(idx, p) == IF p + 1 <= Len(idx) THEN idx[p + 1] ELSE MaxDay

\* the dates of the holding period with the rebalance date itself
PeriodDatesFromRebalance(idx, p) ==
    {d \in Days : idx[p] <= d /\ d <= NextRebalanceDate(idx, p)}

\* the dates of the holding period that starts at idx[p]
PeriodDates(idx, p) ==
    {d \in Days : idx[p] < d /\ d <= NextRebalanceDate(idx, p)}

NotHeld == [held |-> FALSE, position |-> Zero, entry_price |-> Zero, entry_date |-> 0]

\* (current_price / entry_price - 1) * np.sign(position)
PriceReturn(info, current_price) ==
    RatMul(RatSub(RatDiv(current_price, info.entry_price), One), Sign(info.position))

StopLossHit(info, current_price, stop_loss) ==
    /\ stop_loss # NoLimit
    /\ RatLess(PriceReturn(info, current_price), RatSub(Zero, stop_loss))

TakeProfitHit(info, current_price, take_profit) ==
    /\ take_profit # NoLimit
    /\ RatLess(take_profit, PriceReturn(info, current_price))

\* the first date of the period on which the held ticker hits a limit, 0 if none
TriggerDate(info, t, dates, prices, stop_loss, take_profit) ==
    LET hit == {d \in dates :
                  \/ StopLossHit(info, prices[d][t], stop_loss)
                  \/ TakeProfitHit(info, prices[d][t], take_profit)}
    IN  IF ~info.held \/ hit = {} THEN 0
        ELSE CHOOSE d \in hit : \A e \in hit : d <= e

\* frame.loc[hit_date:last, t] = 0 on a frame indexed by idx
ZeroSlice(frame, idx, t, hit_date, last) ==
    [q \in Range(idx) |->
        IF hit_date <= q /\ q <= last THEN [frame[q] EXCEPT ![t] = Zero] ELSE frame[q]]

RECURSIVE ZeroSlices(_, _, _, _, _)
ZeroSlices(frame, idx, tickers, hit_date, last) ==
    IF tickers = {} THEN frame
    ELSE LET t == CHOOSE u \in tickers : TRUE
         IN  ZeroSlices(IF hit_date[t] = 0 THEN frame
                        ELSE ZeroSlice(frame, idx, t, hit_date[t], last),
                        idx, tickers \ {t}, hit_date, last)

\* backtest: positions as run_strategy returned them, the price frame, and
\* the two limits of the strategy
InitBacktest ==
    /\ PipelineIdle
    /\ regression = NotCalled
    /\ evaluation = NotCalled
    /\ performance = NotCalled
    /\ scoring = NotCalled
    /\ rebalance = NotCalled
    /\ run = NotCalled
    /\ \E idx \in RebalanceChoices, odd \in HeldChoices, even \in HeldChoices,
          prices \in PriceChoices,
          sl \in {NoLimit, Rat(1, 4)}, tp \in {NoLimit, Rat(1, 4)} :
        LET frame == [q \in Range(idx) |->
                        IF IndexOf(idx, q) % 2 = 1 THEN odd ELSE even]
        IN  trading = [pc |-> "apply_risk_management", i |-> 1,
                       index |-> idx,
                       positions |-> frame,
                       price_data |-> prices,
                       stop_loss |-> sl, take_profit |-> tp,
                       adjusted_positions |-> frame,
                       active_positions |-> [t \in TickerSet |-> NotHeld],
                       triggers |-> {},
                       returns |-> [d \in Days |-> Zero],
                       terms |-> [d \in Days |-> [t \in TickerSet |-> Zero]],
                       writes |-> [d \in Days |-> 0]]

\* if self.stop_loss is None and self.take_profit is None: return positions
NoRiskManagement ==
    /\ trading.pc = "apply_risk_management"
    /\ trading.stop_loss = NoLimit /\ trading.take_profit = NoLimit
    /\ trading' = [trading EXCEPT !.pc = "calculate_performance"]
    /\ UNCHANGED <<pipeline, regression, evaluation, performance, scoring,
                   rebalance, run>>

\* one rebalance date of apply_risk_management: the active positions are
\* set from the row of the date, then every date up to the next rebalance
\* date is checked against the two limits
CheckPeriod ==
    /\ trading.pc = "apply_risk_management"
    /\ ~(trading.stop_loss = NoLimit /\ trading.take_profit = NoLimit)
    /\ trading.i <= Len(trading.index)
    /\ LET idx == trading.index
           p == trading.i
           current_positions == trading.positions[idx[p]]
           active == [t \in TickerSet |->
                        IF current_positions[t] # Zero
                        THEN [held |-> TRUE, position |-> current_positions[t],
                              entry_price |-> trading.price_data[idx[p]][t],
                              entry_date |-> idx[p]]
                        ELSE NotHeld]
           next_rebalance_date == NextRebalanceDate(idx, p)
           hit_date == [t \in TickerSet |->
                       TriggerDate(active[t], t, PeriodDates(idx, p),
                                   trading.price_data,
                                   trading.stop_loss, trading.take_profit)]
       IN  trading' = [trading EXCEPT
             !.adjusted_positions =
                 ZeroSlices(@, idx, TickerSet, hit_date, next_rebalance_date),
             !.active_positions =
                 [t \in TickerSet |-> IF hit_date[t] # 0 THEN NotHeld ELSE active[t]],
             !.triggers = @ \cup
                 {[ticker |-> t, date |-> hit_date[t], period |-> p] :
                     t \in {u \in TickerSet : hit_date[u] # 0}},
             !.i = p + 1]
    /\ UNCHANGED <<pipeline, regression, evaluation, performance, scoring,
                   rebalance, run>>

\* return adjusted_positions
ReturnAdjusted ==
    /\ trading.pc = "apply_risk_management"
    /\ ~(trading.stop_loss = NoLimit /\ trading.take_profit = NoLimit)
    /\ trading.i > Len(trading.index)
    /\ trading' = [trading EXCEPT !.pc = "calculate_performance", !.i = 1]
    /\ UNCHANGED <<pipeline, regression, evaluation, performance, scoring,
                   rebalance, run>>

\* one rebalance date of calculate_performance: the weighted return of
\* every date of the period, with the positions of the rebalance date
HoldPeriod ==
    /\ trading.pc = "calculate_performance"
    /\ trading.i <= Len(trading.index)
    /\ LET idx == trading.index
           p == trading.i
           current_positions == trading.adjusted_positions[idx[p]]
           stock_return == DailyStockReturns(trading.price_data)
           date_range == PeriodDates(idx, p)
           weighted == [d \in Days |-> [t \in TickerSet |->
                           RatMul(current_positions[t], stock_return[d][t])]]
       IN  trading' = [trading EXCEPT
             !.returns = [d \in Days |->
                 IF d \in date_range
                 THEN DailyReturn(Tickers, current_positions, stock_return[d])
                 ELSE @[d]],
             !.terms = [d \in Days |->
                 IF d \in date_range THEN weighted[d] ELSE @[d]],
             !.writes = [d \in Days |->
                 IF d \in date_range THEN @[d] + 1 ELSE @[d]],
             !.i = p + 1]
    /\ UNCHANGED <<pipeline, regression, evaluation, performance, scoring,
                   rebalance, run>>

\* the loop of calculate_performance is over: the metrics are taken from
\* the series of portfolio returns
PeriodsDone ==
    /\ trading.pc = "calculate_performance"
    /\ trading.i > Len(trading.index)
    /\ trading' = [trading EXCEPT !.pc = "metrics"]
    /\ UNCHANGED <<pipeline, regression, evaluation, performance, scoring,
                   rebalance, run>>

NextBacktest ==
    \/ NoRiskManagement
    \/ CheckPeriod
    \/ ReturnAdjusted
    \/ HoldPeriod
    \/ PeriodsDone

SpecBacktest == InitBacktest /\ [][NextBacktest]_vars

\* the latest rebalance date strictly before d, 0 if there is none
LatestBefore(idx, d) ==
    LET before == {q \in Range(idx) : q < d}
    IN  IF before = {} THEN 0 ELSE CHOOSE q \in before : \A r \in before : r <= q

\* sum over the tickers of weight x return on date d
ReturnWithRow(row, d) ==
    SumCells(Tickers, [t \in TickerSet |->
        RatMul(row[t], DailyStockReturns(trading.price_data)[d][t])])

\* C25: when a stop-loss or take-profit limit is hit for a ticker on a date
\* t after rebalance date r_i and not after r_i+1, the ticker adds nothing
\* to the portfolio return on the later dates of that holding period, and
\* its position at r_i+1 is the one run_strategy assigned.
C25_ClosedForRestOfPeriod ==
    trading.pc = "metrics" =>
        \A tr \in trading.triggers :
            LET idx == trading.index
            IN  /\ \A d \in PeriodDates(idx, tr.period) :
                      d > tr.date => trading.terms[d][tr.ticker] = Zero
                /\ tr.period + 1 <= Len(idx) =>
                      trading.adjusted_positions[idx[tr.period + 1]][tr.ticker]
                        = trading.positions[idx[tr.period + 1]][tr.ticker]

\* C26: the portfolio return of a date is the sum over the tickers of
\* weight x return with the positions of the latest rebalance date strictly
\* before it; every such date is written by one holding period only (a
\* rebalance date by the period that ends on it), and the dates on or
\* before the first rebalance date are never written and keep the return 0.
C26_ReturnsOfPreviousRebalance ==
    /\ \A d \in Days : trading.pc # "idle" => trading.writes[d] <= 1
    /\ trading.pc = "metrics" =>
        \A d \in Days :
            LET q == LatestBefore(trading.index, d)
            IN  IF q = 0
                THEN trading.writes[d] = 0 /\ trading.returns[d] = Zero
                ELSE /\ trading.writes[d] = 1
                     /\ trading.returns[d] = ReturnWithRow(trading.adjusted_positions[q], d)

\* a finished loop with two rebalance dates at least: the second one has a
\* return that its own positions would not have given, and the first one
\* has positions and prices that moved but the return 0
C26_Witness ==
    /\ trading.pc = "metrics"
    /\ Len(trading.index) >= 2
    /\ LET r1 == trading.index[1]
           r2 == trading.index[2]
       IN  /\ trading.returns[r2] # Zero
           /\ trading.returns[r2] # ReturnWithRow(trading.adjusted_positions[r2], r2)
           /\ r1 > 1
           /\ ReturnWithRow(trading.adjusted_positions[r1], r1) # Zero
           /\ trading.returns[r1] = Zero

====
